---- MODULE Spec2Model ----
(***************************************************************************)
(* Telegram -> Discord summary bot: the summarization pipeline of          *)
(* src/main.py (TelegramToDiscordBot) with its collaborators               *)
(* src/clients/telegram_client.py, src/clients/discord_client.py and       *)
(* src/summarizers/*.py.                                                   *)
(*                                                                         *)
(* Text is modelled as a sequence of tokens (TLA+ strings); the delimiter  *)
(* tokens ":" and " " are always tokens of their own, so that splitting,   *)
(* stripping and formatting are computed as the code computes them.        *)
(***************************************************************************)
EXTENDS Integers, Sequences, FiniteSets, TLC

VARIABLES
    config,                 \* TelegramToDiscordBot.config (a dict: its keys are its DOMAIN)
    chat,                   \* the Telegram side: which lookups get_entity accepts, forum flag
    api,                    \* the completion API: what a call of this run meets when it ends
    destination_found,      \* discord client.get_channel(DISCORD_DESTINATION_CHANNEL_ID) finds it
    topic_names,            \* TelegramToDiscordBot.topic_names (kept across runs)
    channel_entity_cache,   \* TelegramChannelClient._channel_entity_cache (kept across runs)
    pc,                     \* position of _generate_and_post_summary
    collection_tasks,       \* the (title, coroutine) list of the run
    collected,              \* per awaited collection: what the transport did and what came back
    all_messages,           \* local of the run
    message_collections,    \* local of the run: insertion-ordered dict title -> messages
    summary_tasks,          \* the asyncio tasks running _process_and_post_summary
    now,                    \* time since the summary tasks were created
    abandoned,              \* tasks as_completed gave up on when the budget elapsed
    summarizer_calls,       \* every summarizer.generate_summary call issued
    delivery_calls,         \* every discord_client.post_summary call issued
    posts,                  \* embeds the destination channel received, in order
    log,                    \* what the run and its tasks logged
    catalog_reply,          \* what GetForumTopicsRequest answered in this run
    first_run,              \* what the collaborators answered and were asked in the first run
    probe,                  \* the input a function is called on outside a run
    answers,                 \* what the calls on the probe returned, in order
    thread_pool             \* the module's ThreadPoolExecutor: calls executing, calls queued

vars == << config, chat, api, destination_found, topic_names, channel_entity_cache, pc,
           collection_tasks, collected, all_messages, message_collections,
           summary_tasks, now, abandoned, summarizer_calls, delivery_calls, posts, log,
           catalog_reply, first_run, probe, answers, thread_pool >>

(***************************************************************************)
(* Bounds of the model and constants of the program                        *)
(***************************************************************************)
MaxTopics == 2              \* longest TELEGRAM_TOPIC_IDS list
MaxMsgs == 2                \* most messages the transport yields for one source
MaxCalls == 3               \* most calls of the resolver on one client
MaxBatches == 6             \* most sub-groups of a run whose thread pool is studied
MaxBatchLen == 27           \* most messages of a batch handed to generate_summary
MaxRuns == 3                \* most runs a process starts while it is observed
MaxPromptCalls == 2         \* most calls made on PromptTemplates
SummaryTimeout == 120       \* asyncio.wait_for(..., timeout=120)
PhaseBudget == 300          \* asyncio.as_completed(..., timeout=300)
MaxWorkers == 5             \* ThreadPoolExecutor(max_workers=5)
TrimCount == 25             \* DeepSeek keeps the 25 most recent messages
TopicLimit == 10            \* list(topics)[:10]
MinTokenLen == 5            \* len(token) > 5

(***************************************************************************)
(* Text helpers                                                            *)
(***************************************************************************)
Range(s) == { s[i] : i \in 1..Len(s) }

Digits == {"0", "1", "2", "3", "4", "5", "6", "7", "8", "9"}

DigitVal(c) ==
    CASE c = "0" -> 0 [] c = "1" -> 1 [] c = "2" -> 2 [] c = "3" -> 3 [] c = "4" -> 4
      [] c = "5" -> 5 [] c = "6" -> 6 [] c = "7" -> 7 [] c = "8" -> 8 [] c = "9" -> 9

\* str.isdigit(): non-empty and all digits
IsDigit(s) == Len(s) > 0 /\ \A i \in 1..Len(s) : s[i] \in Digits

\* str.startswith(p)
StartsWith(s, p) == Len(s) >= Len(p) /\ SubSeq(s, 1, Len(p)) = p

\* s[n:]
DropFirst(s, n) == IF n >= Len(s) THEN << >> ELSE SubSeq(s, n + 1, Len(s))

\* s[-n:]
LastN(s, n) == IF Len(s) <= n THEN s ELSE SubSeq(s, Len(s) - n + 1, Len(s))

RECURSIVE LStrip(_, _)
\* str.lstrip(c)
LStrip(s, c) == IF Len(s) > 0 /\ s[1] = c THEN LStrip(Tail(s), c) ELSE s

RECURSIVE RStrip(_, _)
RStrip(s, c) ==
    IF Len(s) > 0 /\ s[Len(s)] = c THEN RStrip(SubSeq(s, 1, Len(s) - 1), c) ELSE s

\* str.strip() on token text: the only whitespace token is " "
Strip(s) == RStrip(LStrip(s, " "), " ")

RECURSIVE ParseNat(_)
ParseNat(s) ==
    IF Len(s) = 0 THEN 0 ELSE 10 * ParseNat(SubSeq(s, 1, Len(s) - 1)) + DigitVal(s[Len(s)])

\* int(s) succeeds on an optional sign followed by digits
IntParses(s) == IsDigit(s) \/ (Len(s) > 1 /\ s[1] = "-" /\ IsDigit(Tail(s)))

ParseInt(s) == IF s[1] = "-" THEN 0 - ParseNat(Tail(s)) ELSE ParseNat(s)

\* index of the first token c in s, 0 when there is none
FirstIndex(s, c) ==
    IF c \in Range(s) THEN CHOOSE i \in 1..Len(s) : s[i] = c /\ \A j \in 1..(i - 1) : s[j] # c
    ELSE 0

RECURSIVE SeqSum(_)
SeqSum(s) == IF Len(s) = 0 THEN 0 ELSE Head(s) + SeqSum(Tail(s))

RECURSIVE Flatten(_)
Flatten(ss) == IF Len(ss) = 0 THEN << >> ELSE Head(ss) \o Flatten(Tail(ss))

(***************************************************************************)
(* TelegramChannelClient._get_channel_entity                               *)
(***************************************************************************)
\* A lookup handed to client.get_entity: the string as configured, or an integer peer id.
StrKey(s) == [kind |-> "str", s |-> s, n |-> 0]
IntKey(n) == [kind |-> "int", s |-> << >>, n |-> n]

BroadcastPrefix == <<"-", "1", "0", "0">>

\* client.get_entity(key): the entity, when the transport accepts the key
GetEntityAccepts(key) == key \in chat.accepts
Entity(key) == [key |-> key, forum |-> chat.forum]
NoEntity == [key |-> StrKey(<< >>), forum |-> FALSE]

\* Attempt 2 applies: no entity yet, '-100' followed by digits
StripApplies(channel_id) ==
    StartsWith(channel_id, BroadcastPrefix) /\ IsDigit(DropFirst(channel_id, 4))

\* Attempt 3 applies: numeric after lstrip('-'), not starting with '-100'
AddApplies(channel_id) ==
    IsDigit(LStrip(channel_id, "-")) /\ ~StartsWith(channel_id, BroadcastPrefix)

\* base_id of attempt 3
BaseId(channel_id) == IF StartsWith(channel_id, <<"-">>) THEN Tail(channel_id) ELSE channel_id

\* the resolver returning None where it raises ValueError
GetChannelEntity_none(cache, channel_id) ==
    [found |-> TRUE, entity |-> NoEntity, lookups |-> <<StrKey(channel_id)>>,
     errors |-> << >>, error_msg |-> << >>, cache |-> cache]

\* attempts that go on to the bare number after the ref as given has resolved
TryFormats_nostop(cache, channel_id) ==
    LET k1 == StrKey(channel_id)
        k2 == IntKey(ParseNat(DropFirst(channel_id, 4)))
        try2 == StripApplies(channel_id)
        ok1 == GetEntityAccepts(k1)
        ok2 == try2 /\ GetEntityAccepts(k2)
        entity == IF ok2 THEN Entity(k2) ELSE Entity(k1)
    IN  IF ok1 \/ ok2
        THEN [found |-> TRUE, entity |-> entity,
              lookups |-> <<k1>> \o (IF try2 THEN <<k2>> ELSE << >>), errors |-> << >>,
              error_msg |-> << >>,
              cache |-> [r \in DOMAIN cache \cup {channel_id} |->
                           IF r = channel_id THEN entity ELSE cache[r]]]
        ELSE [found |-> FALSE, entity |-> NoEntity,
              lookups |-> <<k1>> \o (IF try2 THEN <<k2>> ELSE << >>),
              errors |-> <<"Original format failed">>,
              error_msg |-> <<"Cannot find channel with ID ">> \o channel_id
                            \o <<". Tried multiple formats.">>,
              cache |-> cache]

\* The attempts of _get_channel_entity past its cache check: as given, without
\* the -100 prefix, with it; the failure, or the write to the cache.
TryFormats(cache, channel_id) ==
      LET k1 == StrKey(channel_id)
          ok1 == GetEntityAccepts(k1)
          try2 == ~ok1 /\ StripApplies(channel_id)
          k2 == IntKey(ParseNat(DropFirst(channel_id, 4)))
          ok2 == try2 /\ GetEntityAccepts(k2)
          try3 == ~ok1 /\ ~ok2 /\ AddApplies(channel_id)
          s3 == BroadcastPrefix \o BaseId(channel_id)
          parses3 == IntParses(s3)
          k3 == IntKey(IF parses3 THEN ParseInt(s3) ELSE 0)
          ok3 == try3 /\ parses3 /\ GetEntityAccepts(k3)
          lookups == <<k1>> \o (IF try2 THEN <<k2>> ELSE << >>)
                            \o (IF try3 /\ parses3 THEN <<k3>> ELSE << >>)
          errors == (IF ok1 THEN << >> ELSE <<"Original format failed">>)
                    \o (IF try2 /\ ~ok2 THEN <<"Without -100 prefix failed">> ELSE << >>)
                    \o (IF try3 /\ ~ok3 THEN <<"With -100 prefix failed">> ELSE << >>)
          entity == IF ok1 THEN Entity(k1) ELSE IF ok2 THEN Entity(k2) ELSE Entity(k3)
      IN  IF ok1 \/ ok2 \/ ok3
          THEN [found |-> TRUE, entity |-> entity, lookups |-> lookups, errors |-> errors,
                error_msg |-> << >>,
                cache |-> [r \in DOMAIN cache \cup {channel_id} |->
                             IF r = channel_id THEN entity ELSE cache[r]]]
          ELSE [found |-> FALSE, entity |-> NoEntity, lookups |-> lookups, errors |-> errors,
                error_msg |-> <<"Cannot find channel with ID ">> \o channel_id
                              \o <<". Tried multiple formats.">>,
                cache |-> cache]

\* a resolver that never consults its cache
GetChannelEntity_uncached(cache, channel_id) == TryFormats(cache, channel_id)

\* a resolver that only tries the ref as given
GetChannelEntity_asgiven(cache, channel_id) ==
    IF channel_id \in DOMAIN cache
    THEN [found |-> TRUE, entity |-> cache[channel_id], lookups |-> << >>,
          errors |-> << >>, error_msg |-> << >>, cache |-> cache]
    ELSE IF GetEntityAccepts(StrKey(channel_id))
    THEN [found |-> TRUE, entity |-> Entity(StrKey(channel_id)),
          lookups |-> <<StrKey(channel_id)>>, errors |-> << >>, error_msg |-> << >>,
          cache |-> [r \in DOMAIN cache \cup {channel_id} |->
                       IF r = channel_id THEN Entity(StrKey(channel_id)) ELSE cache[r]]]
    ELSE [found |-> FALSE, entity |-> NoEntity, lookups |-> <<StrKey(channel_id)>>,
          errors |-> <<"Original format failed">>,
          error_msg |-> <<"Cannot find channel with ID ">> \o channel_id
                        \o <<". Tried multiple formats.">>,
          cache |-> cache]

\* a resolver that remembers a failed resolution in its cache and answers the
\* next call on the same ref from it
GetChannelEntity_negative(cache, channel_id) ==
    IF channel_id \in DOMAIN cache
    THEN [found |-> cache[channel_id] # NoEntity, entity |-> cache[channel_id],
          lookups |-> << >>, errors |-> << >>, error_msg |-> << >>, cache |-> cache]
    ELSE LET r == TryFormats(cache, channel_id)
         IN  IF r.found THEN r
             ELSE [r EXCEPT !.cache = [x \in DOMAIN cache \cup {channel_id} |->
                                         IF x = channel_id THEN NoEntity ELSE cache[x]]]

\* One call of _get_channel_entity on a cache: what it returns (or that it raises
\* ValueError), the lookups it issued in order, the reasons it accumulated, the
\* message of the ValueError, and the cache it leaves.
GetChannelEntity(cache, channel_id) ==
    IF channel_id \in DOMAIN cache
    THEN [found |-> TRUE, entity |-> cache[channel_id], lookups |-> << >>,
          errors |-> << >>, error_msg |-> << >>, cache |-> cache]
    ELSE TryFormats(cache, channel_id)

(***************************************************************************)
(* TelegramChannelClient.get_forum_topics                                  *)
(***************************************************************************)
\* request: what GetForumTopicsRequest does, [raises, topics]; topics are
\* [id, title] records, at most the first 100 of the forum.
GetForumTopics(cache, channel_id, request) ==
    LET r == GetChannelEntity(cache, channel_id)
    IN  IF ~r.found
        THEN [topics |-> << >>, cache |-> r.cache, lookups |-> r.lookups,
              log |-> {[event |-> "cannot_find_channel", title |-> "", n |-> 0],
                       [event |-> "error_getting_forum_topics", title |-> "", n |-> 0]}]
        ELSE IF ~r.entity.forum
        THEN [topics |-> << >>, cache |-> r.cache, lookups |-> r.lookups,
              log |-> {[event |-> "not_a_forum", title |-> "", n |-> 0]}]
        ELSE IF request.raises
        THEN [topics |-> << >>, cache |-> r.cache, lookups |-> r.lookups,
              log |-> {[event |-> "error_getting_forum_topics", title |-> "", n |-> 0]}]
        ELSE [topics |-> request.topics, cache |-> r.cache, lookups |-> r.lookups,
              log |-> {[event |-> "found_topics", title |-> "", n |-> Len(request.topics)]}]

(***************************************************************************)
(* TelegramChannelClient._get_sender_display_name and collect_messages     *)
(***************************************************************************)
\* a sender name that prefers the first name to the handle
GetSenderDisplayName_firstname(message) ==
    LET sender == message.sender
    IN  IF sender.kind = "none" THEN <<"Unknown">>
        ELSE IF sender.kind = "user" /\ Len(sender.first_name) > 0 THEN sender.first_name
        ELSE IF Len(sender.username) > 0 THEN <<"@">> \o sender.username
        ELSE <<ToString(message.sender_id)>>

\* message.sender: kind "none" (no sender attached), "user" (has username,
\* first_name, last_name attributes, any of them possibly empty) or "chat"
\* (a sender without name attributes other than username).
GetSenderDisplayName(message) ==
    LET sender == message.sender
    IN  IF sender.kind = "none" THEN <<"Unknown">>
        ELSE IF Len(sender.username) > 0 THEN <<"@">> \o sender.username
        ELSE IF sender.kind = "user" /\ Len(sender.first_name) > 0
        THEN IF Len(sender.last_name) > 0
             THEN sender.first_name \o <<" ">> \o sender.last_name
             ELSE sender.first_name
        ELSE <<ToString(message.sender_id)>>

\* f"{sender}: {message.text}"
FormatMessage(message) == GetSenderDisplayName(message) \o <<":", " ">> \o message.text

RECURSIVE MessageTexts(_)
\* the loop body of collect_messages: skip "if not message.text", format the rest
MessageTexts(yielded) ==
    IF Len(yielded) = 0 THEN << >>
    ELSE IF Len(Head(yielded).text) = 0 THEN MessageTexts(Tail(yielded))
    ELSE <<FormatMessage(Head(yielded))>> \o MessageTexts(Tail(yielded))

\* collect_messages handing back what it had gathered when the iteration raised
CollectMessages_partial(cache, channel_identifier, iter) ==
    [raised |-> FALSE, messages |-> MessageTexts(iter.yielded), cache |-> cache,
     lookups |-> << >>, log |-> {[event |-> "error_collecting_messages", title |-> "", n |-> 0]}]

\* collect_messages returning from its handler the messages appended before the
\* iteration raised
CollectMessages_keeping(cache, channel_identifier, iter) ==
    LET r == GetChannelEntity(cache, channel_identifier)
    IN  [raised |-> FALSE,
         messages |-> IF r.found THEN MessageTexts(iter.yielded) ELSE << >>,
         cache |-> r.cache, lookups |-> r.lookups,
         log |-> IF r.found /\ ~iter.raises THEN { }
                 ELSE {[event |-> "error_collecting_messages", title |-> "", n |-> 0]}]

\* iter: what client.iter_messages does for this source, [yielded, raises]: the
\* messages it yields, oldest first, and whether it then raises.  The result
\* says what is returned, or (raised) that an exception leaves the call.
CollectMessages(cache, channel_identifier, iter) ==
    LET r == GetChannelEntity(cache, channel_identifier)
    IN  IF ~r.found
        THEN [raised |-> FALSE, messages |-> << >>, cache |-> r.cache, lookups |-> r.lookups,
              log |-> {[event |-> "cannot_find_channel", title |-> "", n |-> 0],
                       [event |-> "error_collecting_messages", title |-> "", n |-> 0]}]
        ELSE IF iter.raises
        THEN [raised |-> FALSE, messages |-> << >>, cache |-> r.cache, lookups |-> r.lookups,
              log |-> {[event |-> "error_collecting_messages", title |-> "", n |-> 0]}]
        ELSE [raised |-> FALSE, messages |-> MessageTexts(iter.yielded), cache |-> r.cache,
              lookups |-> r.lookups, log |-> { }]

(***************************************************************************)
(* DeepSeekSummarizer._generate_basic_summary                              *)
(***************************************************************************)
Stoplist == {"about", "would", "should", "these", "there", "their", "other"}

\* message.split(':', 1): 2 parts when the message holds a ':'
HasAuthor(message) == FirstIndex(message, ":") > 0
AuthorOf(message) == Strip(SubSeq(message, 1, FirstIndex(message, ":") - 1))
ContentOf(message) == Strip(DropFirst(message, FirstIndex(message, ":")))

RECURSIVE CountAuthors(_, _)
\* the authors dict, in insertion order, as a sequence of [name, count]
CountAuthors(message_texts, authors) ==
    IF Len(message_texts) = 0 THEN authors
    ELSE LET message == Head(message_texts)
             known == { i \in 1..Len(authors) : authors[i].name = AuthorOf(message) }
         IN  IF ~HasAuthor(message) THEN CountAuthors(Tail(message_texts), authors)
             ELSE IF known = { }
             THEN CountAuthors(Tail(message_texts),
                               Append(authors, [name |-> AuthorOf(message), count |-> 1]))
             ELSE CountAuthors(Tail(message_texts),
                               [authors EXCEPT ![CHOOSE i \in known : TRUE].count = @ + 1])

RECURSIVE SplitWords(_, _)
\* content.split(): the maximal runs of non-blank tokens, each run one word
SplitWords(content, word) ==
    IF Len(content) = 0 THEN (IF word = "" THEN << >> ELSE <<word>>)
    ELSE IF Head(content) = " "
    THEN (IF word = "" THEN << >> ELSE <<word>>) \o SplitWords(Tail(content), "")
    ELSE SplitWords(Tail(content), word \o Head(content))

\* str.lower() on the words that occur with capitals
Lower(w) == IF w = "Pipeline" THEN "pipeline" ELSE w

\* content.lower().split()
LowerWords(content) ==
    LET words == SplitWords(content, "") IN [k \in 1..Len(words) |-> Lower(words[k])]

\* the topics set: lowercased words longer than 5 characters outside the stoplist
KeyTerms(message_texts) ==
    UNION { { w \in Range(LowerWords(ContentOf(message_texts[i]))) :
                Len(w) > MinTokenLen /\ w \notin Stoplist }
            : i \in { j \in 1..Len(message_texts) : HasAuthor(message_texts[j]) } }

RECURSIVE JoinTokens(_, _)
\* sep.join(parts), parts being token sequences
JoinTokens(parts, sep) ==
    IF Len(parts) = 0 THEN << >>
    ELSE IF Len(parts) = 1 THEN Head(parts)
    ELSE Head(parts) \o <<sep>> \o JoinTokens(Tail(parts), sep)

\* the orders list(topics) can have
Enumerations(S) == { q \in [1..Cardinality(S) -> S] : Range(q) = S }

\* an element of message_texts that is no str: message.split raises on it
NotAString == <<"<not a str>">>

\* lines 122-154, the try body: topic_order is the order in which list(topics)
\* enumerates the set
BasicSummaryBody(message_texts, topic_name, topic_order) ==
    LET authors == CountAuthors(message_texts, << >>)
        author_info == <<"**Participants**: ">>
                       \o JoinTokens([i \in 1..Len(authors) |->
                                        authors[i].name
                                        \o <<" (", ToString(authors[i].count), ")">>], ", ")
        topic_list == SubSeq(topic_order, 1,
                             IF Len(topic_order) < TopicLimit THEN Len(topic_order)
                             ELSE TopicLimit)
        topic_info == IF Len(topic_order) = 0 THEN << >>
                      ELSE <<"**Key terms**: ">>
                           \o JoinTokens([i \in 1..Len(topic_list) |-> <<topic_list[i]>>], ", ")
        stats == <<"**Messages**: ", ToString(Len(message_texts)),
                   " | **Unique Participants**: ", ToString(Len(authors))>>
    IN  author_info \o topic_info \o stats
        \o <<"Conversation happened in ",
             (IF topic_name = "" THEN "this channel" ELSE topic_name), ".">>

\* the digest without its except branch (the token stands for the exception
\* leaving the call)
GenerateBasicSummary_unguarded(message_texts, topic_name, topic_order) ==
    IF \E i \in 1..Len(message_texts) : message_texts[i] = NotAString
    THEN <<"<raised>">>
    ELSE BasicSummaryBody(message_texts, topic_name, topic_order)

\* lines 121-158: the try body, or the except branch when the loop raised
GenerateBasicSummary(message_texts, topic_name, topic_order) ==
    IF \E i \in 1..Len(message_texts) : message_texts[i] = NotAString
    THEN <<"This topic contained ", ToString(Len(message_texts)), " messages.">>
    ELSE BasicSummaryBody(message_texts, topic_name, topic_order)

(***************************************************************************)
(* The summarizers' generate_summary: what it returns for what the API did *)
(***************************************************************************)
\* The method body, from line 43 on (the module's line 5 imports a function
\* get_prompts that utils/prompts.py defines only as a method of PromptTemplates).
\* outcome: [kind, text]: kind "ok" (text is the completion), "timeout"
\* (APITimeoutError), "api_error" (any other APIError), "error" (anything else);
\* text is str(e) for the three error kinds.
DeepSeekGenerateSummary(message_texts, topic_name, outcome, topic_order) ==
    LET trimmed == LastN(message_texts, TrimCount)
    IN  CASE outcome.kind = "ok" -> outcome.text
          [] outcome.kind = "timeout" ->
                <<"**Summary for ", (IF topic_name = "" THEN "This Topic" ELSE topic_name),
                  " (Generated from ", ToString(Len(trimmed)), " messages)**">>
                \o GenerateBasicSummary(trimmed, topic_name, topic_order)
                \o <<"*Note: This is a simplified summary due to DeepSeek API timeout.*">>
          [] outcome.kind = "api_error" ->
                <<"Unable to generate summary. API error: ">> \o outcome.text
          [] OTHER ->
                <<"Unable to generate summary with DeepSeek. Error: ">> \o outcome.text

\* a failure text that leaves the error out
AnthropicGenerateSummary_generic(message_texts, topic_name, outcome) ==
    IF outcome.kind = "ok" THEN outcome.text ELSE <<"Unable to generate summary.">>

AnthropicGenerateSummary(message_texts, topic_name, outcome) ==
    IF outcome.kind = "ok" THEN outcome.text
    ELSE <<"Unable to generate summary. Error: ">> \o outcome.text

\* create_summarizer(provider).generate_summary(messages, topic_name): [raised, text]
GenerateSummary(provider, message_texts, topic_name, outcome, topic_order) ==
    [raised |-> FALSE,
     text |-> IF provider = "deepseek"
              THEN DeepSeekGenerateSummary(message_texts, topic_name, outcome, topic_order)
              ELSE AnthropicGenerateSummary(message_texts, topic_name, outcome)]

\* LLMProvider.<X>.name.capitalize()
ProviderName(provider) == IF provider = "deepseek" THEN "Deepseek" ELSE "Anthropic"

(***************************************************************************)
(* _process_and_post_summary: the pieces that compute text                 *)
(***************************************************************************)
\* generate_summary_thread: the summarizer's text, or the failure text when it raised
GenerateSummaryThread(title, result) ==
    IF result.raised
    THEN <<"Unable to generate summary for ", title, ". Error: ">> \o result.text
    ELSE result.text

\* len(set([msg.split(':')[0].strip() for msg in messages if ':' in msg]))
ParticipantCount(messages) ==
    Cardinality({ AuthorOf(messages[i]) :
                    i \in { j \in 1..Len(messages) : HasAuthor(messages[j]) } })

\* the offline digest in place of the inline notice
TimeoutSummary_digest(title, messages) ==
    <<"**Summary for ", title, "**">> \o GenerateBasicSummary(messages, title, << >>)
    \o <<"*Note: Unable to generate a detailed summary due to DeepSeek API timeout.*">>

\* the text built when asyncio.wait_for times out
TimeoutSummary(title, messages) ==
    <<"**Summary for ", title, "**", "This conversation had ", ToString(Len(messages)),
      " messages from approximately ", ToString(ParticipantCount(messages)),
      " participants.",
      "*Note: Unable to generate a detailed summary due to DeepSeek API timeout.*">>

(***************************************************************************)
(* The inputs of the model                                                 *)
(***************************************************************************)
TopicIdUniverse == {1, 2}

\* TELEGRAM_TOPIC_IDS: lists of configured ids (an id may be listed twice)
TopicIdLists ==
    UNION { { ids \in [1..n -> TopicIdUniverse] : \A i \in 1..(n - 1) : ids[i] <= ids[i + 1] }
            : n \in 0..MaxTopics }

ChannelRef == <<"-", "1", "0", "0", "5">>

\* the Telegram side: it accepts the bare id (the prefixed ref resolves on its
\* second attempt), or only the prefixed integer, which no attempt ever issues
Resolvable(forum) == [accepts |-> {IntKey(5)}, forum |-> forum]
Unresolvable == [accepts |-> {IntKey(0 - 1005)}, forum |-> TRUE]

Providers == {"deepseek", "anthropic"}

\* a configuration with every key a run reads
FullConfig(ids, main, provider) ==
    [TELEGRAM_SOURCE_CHANNEL |-> ChannelRef, TELEGRAM_TOPIC_IDS |-> ids,
     INCLUDE_MAIN_CHANNEL |-> main, MESSAGE_HISTORY_DAYS |-> 1,
     DISCORD_DESTINATION_CHANNEL_ID |-> 1, LLM_PROVIDER |-> provider]

\* the keys load_configuration sets, of those a run reads
LoadedConfig(ids, main, provider) ==
    [TELEGRAM_SOURCE_CHANNEL |-> ChannelRef, TELEGRAM_TOPIC_IDS |-> ids,
     INCLUDE_MAIN_CHANNEL |-> main,
     DISCORD_DESTINATION_CHANNEL_ID |-> 1, LLM_PROVIDER |-> provider]

\* the forum's topics as GetForumTopicsRequest can return them: distinct titles,
\* or a topic that bears the main channel's title and no entry for topic 1
Catalogs ==
    { <<[id |-> 1, title |-> "General"], [id |-> 2, title |-> "Dev"]>>,
      <<[id |-> 2, title |-> "Main Channel"]>> }

NoSender == [kind |-> "none", username |-> << >>, first_name |-> << >>, last_name |-> << >>]
UserSender(username, first_name, last_name) ==
    [kind |-> "user", username |-> username, first_name |-> first_name,
     last_name |-> last_name]

SenderTable ==
    << UserSender(<<"carol">>, <<"Carol">>, << >>),
       UserSender(<< >>, <<"alice">>, << >>),
       UserSender(<< >>, <<"bob">>, << >>) >>

TextTable == << <<"gm", " ", "too">>, <<"gm">> >>

\* the i-th message of a source's history (source 0 is the main channel)
MessageAt(source, i) ==
    [sender |-> SenderTable[((source + i) % 3) + 1], sender_id |-> 40 + source,
     text |-> TextTable[(i % 2) + 1]]

\* a message without text (a photo, a service message)
MediaMessage(source) == [sender |-> NoSender, sender_id |-> 40 + source, text |-> << >>]

\* what iter_messages can do for a source: the lookback window holds none of
\* the source's text messages or its MaxMsgs latest ones; a text-less message
\* may come first; the iteration may raise at its end
IterOutcomes(source) ==
    { [yielded |-> (IF media THEN <<MediaMessage(source)>> ELSE << >>)
                   \o [i \in 1..n |-> MessageAt(source, i)],
       raises |-> raises]
      : n \in {0, MaxMsgs}, media \in BOOLEAN, raises \in BOOLEAN }

\* what the completion API can do when a call ends (a call may also outlast
\* the caller's timeout)
ApiOutcomes(provider) ==
    { [kind |-> "ok", text |-> <<"LLM summary">>], [kind |-> "error", text |-> <<"boom">>] }
    \cup (IF provider = "deepseek"
          THEN { [kind |-> "timeout", text |-> <<"timed out">>],
                 [kind |-> "api_error", text |-> <<"rate limit">>] }
          ELSE { })

LogEntry(event, title, n) == [event |-> event, title |-> title, n |-> n]

\* no catalog asked for yet in this run; no run ended yet; no function under call
NoReply == [asked |-> FALSE, topics |-> << >>]
NoRun == [done |-> FALSE]
NoProbe == [fn |-> "none"]

\* ThreadPoolExecutor(max_workers=5) with no work: the ids of the calls its
\* threads are executing, and of the calls submitted that wait for a thread
IdlePool == [running |-> { }, queue |-> << >>]

(***************************************************************************)
(* Init: the bot as constructed, before the first run                      *)
(***************************************************************************)
\* the collaborators a run meets: a forum with every API behaviour and either
\* destination, and a plain group or an unresolvable ref with a working API
Environments ==
    { [chat |-> Resolvable(TRUE), provider |-> p, api |-> a, destination_found |-> d]
        : p \in Providers, a \in ApiOutcomes("deepseek"), d \in BOOLEAN }
    \cup { [chat |-> c, provider |-> "anthropic",
            api |-> [kind |-> "ok", text |-> <<"LLM summary">>],
            destination_found |-> TRUE] : c \in {Resolvable(FALSE), Unresolvable} }

\* the environment in which the configurations with several sub-groups are run
DefaultEnvironment ==
    [chat |-> Resolvable(TRUE), provider |-> "deepseek",
     api |-> [kind |-> "timeout", text |-> <<"timed out">>], destination_found |-> TRUE]

Init ==
    /\ \E env \in Environments :
         /\ env.api \in ApiOutcomes(env.provider)
         /\ chat = env.chat
         /\ api = env.api
         /\ destination_found = env.destination_found
         /\ config \in { FullConfig(ids, main, env.provider) :
                           ids \in { l \in TopicIdLists :
                                       Len(l) > 1 => env = DefaultEnvironment },
                           main \in BOOLEAN }
                       \cup { LoadedConfig(<<1>>, TRUE, env.provider) }
    /\ topic_names = << >>
    /\ channel_entity_cache = << >>
    /\ pc = "idle"
    /\ collection_tasks = << >>
    /\ collected = << >>
    /\ all_messages = << >>
    /\ message_collections = << >>
    /\ summary_tasks = << >>
    /\ now = 0
    /\ abandoned = { }
    /\ summarizer_calls = { }
    /\ delivery_calls = { }
    /\ posts = { }
    /\ log = { }
    /\ catalog_reply = NoReply
    /\ first_run = NoRun
    /\ probe = NoProbe
    /\ answers = << >>
    /\ thread_pool = IdlePool

(***************************************************************************)
(* _generate_and_post_summary: one run                                     *)
(***************************************************************************)
MainTitle == "Main Channel"
AllTitle == "All Channels and Topics"

\* a test that passes every list
Truthy_always(messages) == TRUE

\* Python truthiness of a list
Truthy(messages) == Len(messages) > 0

RECURSIVE UpdateTopicNames(_, _)
\* for topic in topics: self.topic_names[topic.id] = topic.title
UpdateTopicNames(names, topics) ==
    IF Len(topics) = 0 THEN names
    ELSE UpdateTopicNames([id \in DOMAIN names \cup {Head(topics).id} |->
                             IF id = Head(topics).id THEN Head(topics).title ELSE names[id]],
                          Tail(topics))

\* self.topic_names.get(topic_id, f"Topic {topic_id}")
TopicName(names, topic_id) ==
    IF topic_id \in DOMAIN names THEN names[topic_id] ELSE "Topic " \o ToString(topic_id)

\* lines 107-128: the (title, coroutine) list, main channel first
CollectionTasks(cfg, names) ==
    (IF cfg.INCLUDE_MAIN_CHANNEL
     THEN <<[title |-> MainTitle, has_topic |-> FALSE, topic_id |-> 0]>> ELSE << >>)
    \o [i \in 1..Len(cfg.TELEGRAM_TOPIC_IDS) |->
          [title |-> TopicName(names, cfg.TELEGRAM_TOPIC_IDS[i]), has_topic |-> TRUE,
           topic_id |-> cfg.TELEGRAM_TOPIC_IDS[i]]]

\* d[key] = value on an insertion-ordered dict kept as a sequence of [title, messages]
DictSet(d, key, value) ==
    IF \E i \in 1..Len(d) : d[i].title = key
    THEN [i \in 1..Len(d) |-> IF d[i].title = key THEN [d[i] EXCEPT !.messages = value]
                                                 ELSE d[i]]
    ELSE Append(d, [title |-> key, messages |-> value])

\* lines 90-98, and 107-128 when no topic is configured: a missing key raises
\* KeyError, which line 176 catches and logs
GenerateAndPostSummary ==
    /\ pc = "idle"
    /\ IF "MESSAGE_HISTORY_DAYS" \notin DOMAIN config
       THEN /\ pc' = "done"
            /\ log' = log \cup {LogEntry("daily_summary_failed", "", 0)}
            /\ UNCHANGED collection_tasks
       ELSE IF Truthy(config.TELEGRAM_TOPIC_IDS)
       THEN /\ pc' = "topics"
            /\ UNCHANGED << log, collection_tasks >>
       ELSE /\ collection_tasks' = CollectionTasks(config, topic_names)
            /\ pc' = IF Len(collection_tasks') = 0 THEN "spawn" ELSE "collect"
            /\ UNCHANGED log
    /\ UNCHANGED << catalog_reply, first_run, probe, thread_pool, answers, config, chat, api,
                    destination_found, topic_names, channel_entity_cache,
                    collected, all_messages, message_collections, summary_tasks, now,
                    abandoned, summarizer_calls, delivery_calls, posts >>

\* lines 101-128: the catalog is awaited, the titles stored, the coroutines made
FetchForumTopics ==
    /\ pc = "topics"
    /\ \E request \in { [raises |-> TRUE, topics |-> << >>] }
                      \cup { [raises |-> FALSE, topics |-> c] : c \in Catalogs } :
         LET r == GetForumTopics(channel_entity_cache, config.TELEGRAM_SOURCE_CHANNEL, request)
         IN  /\ topic_names' = UpdateTopicNames(topic_names, r.topics)
             /\ channel_entity_cache' = r.cache
             /\ log' = log \cup r.log
             /\ collection_tasks' = CollectionTasks(config, topic_names')
             /\ catalog_reply' = [asked |-> TRUE, topics |-> r.topics]
    /\ pc' = IF Len(collection_tasks') = 0 THEN "spawn" ELSE "collect"
    /\ UNCHANGED << first_run, probe, thread_pool, answers, config, chat, api,
                    destination_found, collected, all_messages,
                    message_collections, summary_tasks, now, abandoned, summarizer_calls,
                    delivery_calls, posts >>

\* The collections whose body has begun to run.  Lines 113 and 123 call
\* collect_messages without awaiting it or wrapping it in a task, which makes a
\* coroutine object and runs none of it; a coroutine runs when line 132 awaits
\* it, and that await returns only when it has ended.
StartedCollections ==
    1..(IF pc = "collect" THEN Len(collected) + 1 ELSE Len(collected))

\* those of them that have not ended
CollectionsInFlight == StartedCollections \ (1..Len(collected))

\* lines 131-135, one turn of the loop: the next coroutine runs to its end; an
\* exception leaving it would end the run at line 176
AwaitCollection ==
    /\ pc = "collect"
    /\ LET i == Len(collected) + 1
           source == collection_tasks[i]
       IN  \E iter \in IterOutcomes(source.topic_id) :
             LET r == CollectMessages(channel_entity_cache,
                                      config.TELEGRAM_SOURCE_CHANNEL, iter)
             IN  /\ channel_entity_cache' = r.cache
                 /\ IF r.raised
                    THEN /\ pc' = "done"
                         /\ log' = log \cup r.log \cup {LogEntry("daily_summary_failed", "", 0)}
                         /\ UNCHANGED << collected, all_messages, message_collections >>
                    ELSE /\ collected' = Append(collected, [raised |-> iter.raises,
                                                            messages |-> r.messages])
                         /\ log' = log \cup r.log
                         /\ IF Truthy(r.messages)
                            THEN /\ all_messages' = all_messages \o r.messages
                                 /\ message_collections' =
                                        DictSet(message_collections, source.title, r.messages)
                            ELSE UNCHANGED << all_messages, message_collections >>
                         /\ pc' = IF i = Len(collection_tasks) THEN "spawn" ELSE "collect"
    /\ UNCHANGED << catalog_reply, first_run, probe, thread_pool, answers, config, chat, api,
                    destination_found, topic_names, collection_tasks,
                    summary_tasks, now, abandoned, summarizer_calls, delivery_calls, posts >>

\* an executor that gives every call a thread of its own at once
Submit_unbounded(pool, i) == [pool EXCEPT !.running = pool.running \cup {i}]

\* run_in_executor(thread_pool, ...): the call starts on a thread when fewer
\* than max_workers are busy, and waits in the executor's queue otherwise
Submit(pool, i) ==
    IF Cardinality(pool.running) < MaxWorkers
    THEN [pool EXCEPT !.running = pool.running \cup {i}]
    ELSE [pool EXCEPT !.queue = Append(pool.queue, i)]

RECURSIVE SubmitAll(_, _)
SubmitAll(pool, ids) ==
    IF Len(ids) = 0 THEN pool ELSE SubmitAll(Submit(pool, Head(ids)), Tail(ids))

\* the blocking call of i ends: its thread takes the next queued call, if any
Release(pool, i) ==
    IF Len(pool.queue) = 0
    THEN [pool EXCEPT !.running = pool.running \ {i}]
    ELSE [running |-> (pool.running \ {i}) \cup {Head(pool.queue)}, queue |-> Tail(pool.queue)]

\* a pool in which cancelling a call frees its thread
Cancel_stopping(pool, i) ==
    IF i \in pool.running THEN Release(pool, i)
    ELSE [pool EXCEPT !.queue = SelectSeq(pool.queue, LAMBDA j : j # i)]

\* wait_for cancels the future of i: a call still queued is dropped and never
\* starts; a call already executing cannot be cancelled and runs on in its thread
Cancel(pool, i) == [pool EXCEPT !.queue = SelectSeq(pool.queue, LAMBDA j : j # i)]

\* the calls of generate_summary that have started, as the summarizer sees them
StartedCalls(tasks, ids) ==
    { [task |-> i, messages |-> tasks[i].messages, topic_name |-> tasks[i].topic_name]
        : i \in ids }

\* a task running _process_and_post_summary, as it stands after its first step
\* (lines 188-210): the guard on empty messages, then the blocking call handed
\* to the executor and awaited under the timeout
NewTask(title, messages, topic_name) ==
    [title |-> title, topic_name |-> topic_name, messages |-> messages,
     stage |-> IF Truthy(messages) THEN "summarizing" ELSE "returned",
     summary |-> << >>, delivery |-> "none"]

\* the overall task created whatever was collected
SummaryTasks_overall(collections, all) ==
    [i \in 1..Len(collections) |->
        [title |-> collections[i].title, topic_name |-> collections[i].title,
         messages |-> collections[i].messages, stage |-> "summarizing",
         summary |-> << >>, delivery |-> "none"]]
    \o <<[title |-> AllTitle, topic_name |-> "All", messages |-> all,
          stage |-> IF Len(all) > 0 THEN "summarizing" ELSE "returned",
          summary |-> << >>, delivery |-> "none"]>>

\* lines 141-161: one task per collection, then the overall one
SummaryTasks(collections, all) ==
    LET kept == SelectSeq(collections, LAMBDA c : Truthy(c.messages))
    IN  [i \in 1..Len(kept) |-> NewTask(kept[i].title, kept[i].messages, kept[i].title)]
        \o (IF Len(collections) > 1 /\ Truthy(all)
            THEN <<NewTask(AllTitle, all, "All")>> ELSE << >>)

\* lines 137-166 and 174: the tasks are created and, at the first await of the
\* run, each runs its first step; without tasks the run logs that and ends
CreateSummaryTasks ==
    /\ pc = "spawn"
    /\ summary_tasks' = SummaryTasks(message_collections, all_messages)
    /\ thread_pool' =
          SubmitAll(thread_pool,
                    SelectSeq([j \in 1..Len(summary_tasks') |-> j],
                              LAMBDA j : summary_tasks'[j].stage = "summarizing"))
    /\ summarizer_calls' =
          StartedCalls(summary_tasks', thread_pool'.running \ thread_pool.running)
    /\ now' = 0
    /\ IF Len(summary_tasks') > 0
       THEN pc' = "wait" /\ UNCHANGED log
       ELSE pc' = "done" /\ log' = log \cup {LogEntry("no_messages_found", "", 0)}
    /\ UNCHANGED << catalog_reply, first_run, probe, answers, config, chat, api,
                    destination_found, topic_names, channel_entity_cache,
                    collection_tasks, collected, all_messages, message_collections,
                    abandoned, delivery_calls, posts >>

(***************************************************************************)
(* _process_and_post_summary: one task, after its first step               *)
(***************************************************************************)
Tasks == 1..Len(summary_tasks)
Outstanding == { i \in Tasks : summary_tasks[i].stage # "returned" }

\* the embed post_summary builds (the date in its title is left out)
Embed(i, summary) ==
    [task |-> i, title |-> "Telegram Summary: " \o summary_tasks[i].title,
     description |-> summary,
     footer |-> "Summary by " \o ProviderName(config.LLM_PROVIDER)]

\* a delivery that is held back until no other task awaits its summary
DeliverSummary_deferred(i, summary) ==
    /\ delivery_calls' =
          IF \E j \in Tasks \ {i} : summary_tasks[j].stage = "summarizing"
          THEN delivery_calls
          ELSE delivery_calls \cup
                 {[task |-> i, channel_id |-> config.DISCORD_DESTINATION_CHANNEL_ID,
                   embed |-> Embed(i, summary)]}
    /\ summary_tasks' = [summary_tasks EXCEPT ![i].stage = "posting", ![i].summary = summary]
    /\ UNCHANGED log

\* lines 220-228 with post_summary up to channel.send (discord_client.py 61-80):
\* the call is made; an unknown destination is logged and ends the task
DeliverSummary(i, summary) ==
    /\ delivery_calls' = delivery_calls \cup
          {[task |-> i, channel_id |-> config.DISCORD_DESTINATION_CHANNEL_ID,
            embed |-> Embed(i, summary)]}
    /\ IF destination_found
       THEN /\ summary_tasks' = [summary_tasks EXCEPT ![i].stage = "posting",
                                                      ![i].summary = summary]
            /\ UNCHANGED log
       ELSE /\ summary_tasks' = [summary_tasks EXCEPT ![i].stage = "returned",
                                                      ![i].summary = summary,
                                                      ![i].delivery = "not_found"]
            /\ log' = log \cup {LogEntry("discord_channel_not_found",
                                         summary_tasks[i].title, 0)}

\* lines 197-210 then 220-228: the blocking call ends within the timeout
SummaryReturns(i) ==
    /\ summary_tasks[i].stage = "summarizing"
    /\ i \in thread_pool.running
    /\ thread_pool' = Release(thread_pool, i)
    /\ summarizer_calls' = summarizer_calls
          \cup StartedCalls(summary_tasks, thread_pool'.running \ thread_pool.running)
    /\ \E topic_order \in Enumerations(KeyTerms(LastN(summary_tasks[i].messages, TrimCount))) :
         DeliverSummary(i, GenerateSummaryThread(summary_tasks[i].title,
                              GenerateSummary(config.LLM_PROVIDER, summary_tasks[i].messages,
                                              summary_tasks[i].topic_name, api, topic_order)))
    /\ UNCHANGED << catalog_reply, first_run, probe, answers, config, chat, api,
                    destination_found, topic_names, channel_entity_cache, pc,
                    collection_tasks, collected, all_messages, message_collections, now,
                    abandoned, posts >>

\* the text the task delivers when wait_for times out (lines 211-218)
TimeoutBody(i) == TimeoutSummary(summary_tasks[i].title, summary_tasks[i].messages)

\* a task that gives up, delivering nothing, when wait_for times out
SummaryTimesOut_drops(i) ==
    /\ summary_tasks[i].stage = "summarizing"
    /\ now >= SummaryTimeout
    /\ summary_tasks' = [summary_tasks EXCEPT ![i].stage = "returned"]
    /\ log' = log \cup {LogEntry("summary_generation_timed_out", summary_tasks[i].title, 0)}
    /\ thread_pool' = Cancel(thread_pool, i)
    /\ UNCHANGED << catalog_reply, first_run, probe, answers, config, chat, api,
                    destination_found, topic_names, channel_entity_cache, pc,
                    collection_tasks, collected, all_messages, message_collections, now,
                    abandoned, summarizer_calls, delivery_calls, posts >>

\* lines 211-228: wait_for gives up on the blocking call after 120
SummaryTimesOut(i) ==
    /\ summary_tasks[i].stage = "summarizing"
    /\ now >= SummaryTimeout
    /\ delivery_calls' = delivery_calls \cup
          {[task |-> i, channel_id |-> config.DISCORD_DESTINATION_CHANNEL_ID,
            embed |-> Embed(i, TimeoutBody(i))]}
    /\ summary_tasks' =
          [summary_tasks EXCEPT ![i].stage = IF destination_found THEN "posting" ELSE "returned",
                                ![i].summary = TimeoutBody(i),
                                ![i].delivery = IF destination_found THEN "none" ELSE "not_found"]
    /\ log' = log \cup {LogEntry("summary_generation_timed_out", summary_tasks[i].title, 0)}
                 \cup (IF destination_found THEN { }
                       ELSE {LogEntry("discord_channel_not_found", summary_tasks[i].title, 0)})
    /\ thread_pool' = Cancel(thread_pool, i)
    /\ UNCHANGED << catalog_reply, first_run, probe, answers, config, chat, api,
                    destination_found, topic_names, channel_entity_cache, pc,
                    collection_tasks, collected, all_messages, message_collections, now,
                    abandoned, summarizer_calls, posts >>

\* a failed send that takes the sibling tasks down with it
SendCompletes_cancelling(i) ==
    /\ summary_tasks[i].stage = "posting"
    /\ \E sent \in BOOLEAN :
         IF sent
         THEN /\ posts' = posts \cup {Embed(i, summary_tasks[i].summary)}
              /\ summary_tasks' = [summary_tasks EXCEPT ![i].stage = "returned",
                                                        ![i].delivery = "sent"]
              /\ log' = log \cup {LogEntry("posted_summary", summary_tasks[i].title, 0)}
         ELSE /\ UNCHANGED posts
              /\ summary_tasks' =
                    [j \in Tasks |->
                       IF j = i THEN [summary_tasks[j] EXCEPT !.stage = "returned",
                                                              !.delivery = "send_failed"]
                       ELSE IF summary_tasks[j].stage # "returned"
                       THEN [summary_tasks[j] EXCEPT !.stage = "returned",
                                                     !.delivery = "cancelled"]
                       ELSE summary_tasks[j]]
              /\ log' = log \cup {LogEntry("error_posting_to_discord",
                                           summary_tasks[i].title, 0)}
    /\ UNCHANGED << catalog_reply, first_run, probe, thread_pool, answers, config, chat, api,
                    destination_found, topic_names, channel_entity_cache, pc,
                    collection_tasks, collected, all_messages, message_collections, now,
                    abandoned, summarizer_calls, delivery_calls >>

\* a send that is attempted again after it failed
SendCompletes_retrying(i) ==
    /\ summary_tasks[i].stage = "posting"
    /\ \E sent \in BOOLEAN :
         IF sent
         THEN /\ posts' = posts \cup {Embed(i, summary_tasks[i].summary)}
              /\ summary_tasks' = [summary_tasks EXCEPT ![i].stage = "returned",
                                                        ![i].delivery = "sent"]
              /\ log' = log \cup {LogEntry("posted_summary", summary_tasks[i].title, 0)}
         ELSE /\ UNCHANGED posts
              /\ summary_tasks' = [summary_tasks EXCEPT ![i].delivery = "send_failed"]
              /\ log' = log \cup {LogEntry("error_posting_to_discord",
                                           summary_tasks[i].title, 0)}
    /\ UNCHANGED << catalog_reply, first_run, probe, thread_pool, answers, config, chat, api,
                    destination_found, topic_names, channel_entity_cache, pc,
                    collection_tasks, collected, all_messages, message_collections, now,
                    abandoned, summarizer_calls, delivery_calls >>

\* discord_client.py 80-86: channel.send returns, or raises and is logged
SendCompletes(i) ==
    /\ summary_tasks[i].stage = "posting"
    /\ \E sent \in BOOLEAN :
         IF sent
         THEN /\ posts' = posts \cup {Embed(i, summary_tasks[i].summary)}
              /\ summary_tasks' = [summary_tasks EXCEPT ![i].stage = "returned",
                                                        ![i].delivery = "sent"]
              /\ log' = log \cup {LogEntry("posted_summary", summary_tasks[i].title, 0)}
         ELSE /\ UNCHANGED posts
              /\ summary_tasks' = [summary_tasks EXCEPT ![i].stage = "returned",
                                                        ![i].delivery = "send_failed"]
              /\ log' = log \cup {LogEntry("error_posting_to_discord",
                                           summary_tasks[i].title, 0)}
    /\ UNCHANGED << catalog_reply, first_run, probe, thread_pool, answers, config, chat, api,
                    destination_found, topic_names, channel_entity_cache, pc,
                    collection_tasks, collected, all_messages, message_collections, now,
                    abandoned, summarizer_calls, delivery_calls >>

\* main.py 197-202 after the timeout: the blocking call that wait_for gave up
\* on ends in its thread; nothing awaits its result
ThreadEnds(i) ==
    /\ i \in thread_pool.running
    /\ summary_tasks[i].stage # "summarizing"
    /\ thread_pool' = Release(thread_pool, i)
    /\ summarizer_calls' = summarizer_calls
          \cup StartedCalls(summary_tasks, thread_pool'.running \ thread_pool.running)
    /\ UNCHANGED << catalog_reply, first_run, probe, answers, config, chat, api,
                    destination_found, topic_names, channel_entity_cache, pc,
                    collection_tasks, collected, all_messages, message_collections,
                    summary_tasks, now, abandoned, delivery_calls, posts, log >>

(***************************************************************************)
(* Time: the two timers of the summarize+deliver phase                     *)
(***************************************************************************)
\* the timers still pending: wait_for's, per task awaiting its summary, and as_completed's
Deadlines ==
    (IF \E i \in Tasks : summary_tasks[i].stage = "summarizing" THEN {SummaryTimeout} ELSE { })
    \cup (IF pc = "wait" THEN {PhaseBudget} ELSE { })

\* time passes up to the next pending timer; a timer that is due fires first
Tick ==
    /\ Deadlines # { }
    /\ \A d \in Deadlines : d > now
    /\ now' = CHOOSE d \in Deadlines : \A e \in Deadlines : d <= e
    /\ UNCHANGED << catalog_reply, first_run, probe, thread_pool, answers, config, chat, api,
                    destination_found, topic_names, channel_entity_cache, pc,
                    collection_tasks, collected, all_messages, message_collections,
                    summary_tasks, abandoned, summarizer_calls, delivery_calls, posts, log >>

\* a wait that ends only when every task has returned
PhaseBudgetElapses_waits ==
    /\ pc = "wait"
    /\ now >= PhaseBudget
    /\ Outstanding = { }
    /\ pc' = "done"
    /\ UNCHANGED << catalog_reply, first_run, probe, thread_pool, answers, config, chat, api,
                    destination_found, topic_names, channel_entity_cache,
                    collection_tasks, collected, all_messages, message_collections,
                    summary_tasks, now, abandoned, summarizer_calls, delivery_calls, posts,
                    log >>

\* a budget that cancels the tasks it stops waiting for
PhaseBudgetElapses_cancels ==
    /\ pc = "wait"
    /\ now >= PhaseBudget
    /\ Outstanding # { }
    /\ abandoned' = Outstanding
    /\ summary_tasks' = [j \in Tasks |->
                            IF j \in Outstanding
                            THEN [summary_tasks[j] EXCEPT !.stage = "returned",
                                                          !.delivery = "cancelled"]
                            ELSE summary_tasks[j]]
    /\ log' = log \cup {LogEntry("summary_task_timed_out", "", Cardinality(Outstanding))}
    /\ pc' = "done"
    /\ UNCHANGED << catalog_reply, first_run, probe, thread_pool, answers, config, chat, api,
                    destination_found, topic_names, channel_entity_cache,
                    collection_tasks, collected, all_messages, message_collections,
                    now, summarizer_calls, delivery_calls, posts >>

\* lines 166-170: as_completed's timeout; each task still pending raises
\* TimeoutError into the loop, which logs it; the tasks themselves go on
PhaseBudgetElapses ==
    /\ pc = "wait"
    /\ now >= PhaseBudget
    /\ Outstanding # { }
    /\ abandoned' = Outstanding
    /\ log' = log \cup {LogEntry("summary_task_timed_out", "", Cardinality(Outstanding))}
    /\ pc' = "done"
    /\ UNCHANGED << catalog_reply, first_run, probe, thread_pool, answers, config, chat, api,
                    destination_found, topic_names, channel_entity_cache,
                    collection_tasks, collected, all_messages, message_collections,
                    summary_tasks, now, summarizer_calls, delivery_calls, posts >>

\* a wait that ends while tasks are still running and the budget has not elapsed
AllTasksComplete_early ==
    /\ pc = "wait"
    /\ pc' = "done"
    /\ UNCHANGED << catalog_reply, first_run, probe, thread_pool, answers, config, chat, api,
                    destination_found, topic_names, channel_entity_cache,
                    collection_tasks, collected, all_messages, message_collections,
                    summary_tasks, now, abandoned, summarizer_calls, delivery_calls, posts,
                    log >>

\* lines 166-168: every task has been awaited
AllTasksComplete ==
    /\ pc = "wait"
    /\ Outstanding = { }
    /\ pc' = "done"
    /\ UNCHANGED << catalog_reply, first_run, probe, thread_pool, answers, config, chat, api,
                    destination_found, topic_names, channel_entity_cache,
                    collection_tasks, collected, all_messages, message_collections,
                    summary_tasks, now, abandoned, summarizer_calls, delivery_calls, posts,
                    log >>

Next ==
    \/ GenerateAndPostSummary
    \/ FetchForumTopics
    \/ AwaitCollection
    \/ CreateSummaryTasks
    \/ \E i \in Tasks : SummaryReturns(i)
    \/ \E i \in Tasks : SummaryTimesOut(i)
    \/ \E i \in Tasks : SendCompletes(i)
    \/ \E i \in Tasks : ThreadEnds(i)
    \/ Tick
    \/ PhaseBudgetElapses
    \/ AllTasksComplete

Spec == Init /\ [][Next]_vars

(***************************************************************************)
(* run_once invoked again on the same bot                                  *)
(***************************************************************************)
\* a run whose locals survived the previous run
RunLocals_retained(all, collections) ==
    [all_messages |-> all, message_collections |-> collections]

\* lines 97-98: the list and the dict a run starts with, whatever the previous
\* run left in its own
RunLocals(all, collections) == [all_messages |-> << >>, message_collections |-> << >>]

\* what a finished run issued and was answered
RunRecord ==
    [done |-> TRUE, catalog_reply |-> catalog_reply, collection_tasks |-> collection_tasks,
     collected |-> collected, summarizer_calls |-> summarizer_calls,
     summaries |-> [i \in Tasks |-> summary_tasks[i].summary],
     delivery_calls |-> delivery_calls]

\* The scheduler invokes the run again once the previous one has ended and its
\* tasks have returned.  The bot keeps topic_names (main.py line 50) and the
\* client its entity cache (telegram_client.py line 25); everything else a
\* run works on is local to it.
RunAgain ==
    /\ pc = "done"
    /\ ~first_run.done
    /\ Outstanding = { }
    /\ thread_pool = IdlePool
    /\ first_run' = RunRecord
    /\ pc' = "idle"
    /\ all_messages' = RunLocals(all_messages, message_collections).all_messages
    /\ message_collections' = RunLocals(all_messages, message_collections).message_collections
    /\ collection_tasks' = << >>
    /\ collected' = << >>
    /\ summary_tasks' = << >>
    /\ catalog_reply' = NoReply
    /\ now' = 0
    /\ abandoned' = { }
    /\ summarizer_calls' = { }
    /\ delivery_calls' = { }
    /\ posts' = { }
    /\ log' = { }
    /\ UNCHANGED << probe, thread_pool, answers, config, chat, api, destination_found, topic_names,
                    channel_entity_cache >>

\* the bots configured with the main channel and at most one sub-group
RepeatInit ==
    /\ Init
    /\ Len(config.TELEGRAM_TOPIC_IDS) <= 1

\* The collaborators answer the second run as they answered the first: the
\* catalog request, each source's iteration and each summarizer call (its
\* text, or its outlasting the timeout) end as they did; the destination is
\* left free.
CatalogAsBefore == first_run.done => catalog_reply' = first_run.catalog_reply

CollectedAsBefore ==
    first_run.done =>
      /\ Len(collected') <= Len(first_run.collected)
      /\ collected' = SubSeq(first_run.collected, 1, Len(collected'))

SummaryAsBefore(i) ==
    first_run.done =>
      /\ i \in DOMAIN first_run.summaries
      /\ summary_tasks'[i].summary = first_run.summaries[i]

AnsweredFetchForumTopics == FetchForumTopics /\ CatalogAsBefore
AnsweredAwaitCollection == AwaitCollection /\ CollectedAsBefore
AnsweredSummaryReturns(i) == SummaryReturns(i) /\ SummaryAsBefore(i)
AnsweredSummaryTimesOut(i) == SummaryTimesOut(i) /\ SummaryAsBefore(i)

RepeatNext ==
    \/ GenerateAndPostSummary
    \/ AnsweredFetchForumTopics
    \/ AnsweredAwaitCollection
    \/ CreateSummaryTasks
    \/ \E i \in Tasks : AnsweredSummaryReturns(i)
    \/ \E i \in Tasks : AnsweredSummaryTimesOut(i)
    \/ \E i \in Tasks : SendCompletes(i)
    \/ \E i \in Tasks : ThreadEnds(i)
    \/ Tick
    \/ PhaseBudgetElapses
    \/ AllTasksComplete
    \/ RunAgain

RepeatSpec == RepeatInit /\ [][RepeatNext]_vars

(***************************************************************************)
(* The summarize+deliver phase of a run with more batches than threads     *)
(***************************************************************************)
\* the message collected from each of the sources
PoolBatch(i) == MessageTexts(<<MessageAt(i, 1)>>)

\* A run as it stands when its collections have been awaited: n sub-groups
\* configured, no main channel, the topic catalog unavailable, one message
\* collected from each, an unknown destination.
PoolInit ==
    \E n \in 1..MaxBatches :
      LET ids == [i \in 1..n |-> i]
          r == GetForumTopics(<< >>, ChannelRef, [raises |-> TRUE, topics |-> << >>])
      IN  /\ chat = Resolvable(TRUE)
          /\ api = [kind |-> "ok", text |-> <<"LLM summary">>]
          /\ destination_found = FALSE
          /\ config = FullConfig(ids, FALSE, "deepseek")
          /\ topic_names = << >>
          /\ channel_entity_cache = r.cache
          /\ catalog_reply = [asked |-> TRUE, topics |-> r.topics]
          /\ log = r.log
          /\ pc = "spawn"
          /\ collection_tasks = CollectionTasks(config, topic_names)
          /\ collected = [i \in 1..n |-> [raised |-> FALSE, messages |-> PoolBatch(i)]]
          /\ all_messages = Flatten([i \in 1..n |-> PoolBatch(i)])
          /\ message_collections =
                [i \in 1..n |-> [title |-> collection_tasks[i].title, messages |-> PoolBatch(i)]]
          /\ summary_tasks = << >>
          /\ now = 0
          /\ abandoned = { }
          /\ summarizer_calls = { }
          /\ delivery_calls = { }
          /\ posts = { }
          /\ first_run = NoRun
          /\ probe = NoProbe
          /\ answers = << >>
          /\ thread_pool = IdlePool

PoolNext ==
    \/ CreateSummaryTasks
    \/ \E i \in Tasks : SummaryReturns(i)
    \/ \E i \in Tasks : SummaryTimesOut(i)
    \/ \E i \in Tasks : ThreadEnds(i)
    \/ Tick
    \/ AllTasksComplete

PoolSpec == PoolInit /\ [][PoolNext]_vars

(***************************************************************************)
(* The functions called on their own: the resolver, the sender name, the   *)
(* collection of one source and the offline digest, on inputs wider than   *)
(* those a modelled run meets                                              *)
(***************************************************************************)
\* channel refs as configured (strings): prefixed, negative, bare, a username,
\* the prefix alone, a doubled sign
RefUniverse ==
    { <<"-", "1", "0", "0", "5">>, <<"-", "1", "0", "0", "5", "0">>, <<"-", "5">>, <<"5">>,
      <<"c", "h", "a", "n">>, <<"-", "1", "0", "0">>, <<"-", "-", "5">> }

\* what the Telegram side may accept
Transports ==
    { [accepts |-> a, forum |-> FALSE] :
        a \in { { }, {IntKey(5)}, {IntKey(50)}, {IntKey(0 - 1005)},
                {StrKey(<<"-", "1", "0", "0", "5">>)},
                {StrKey(<<"c", "h", "a", "n">>)},
                {StrKey(<<"-", "1", "0", "0", "5">>), IntKey(5)} } }

\* senders: none, users with or without each name, a channel posting as itself
ProbeSenders ==
    {NoSender}
    \cup { UserSender(u, f, l) : u \in {<< >>, <<"carol">>}, f \in {<< >>, <<"Ann">>},
                                 l \in {<< >>, <<"Lee">>} }
    \cup { [kind |-> "chat", username |-> u, first_name |-> << >>, last_name |-> << >>]
             : u \in {<< >>, <<"news">>} }

\* message.text: none, blank, one word, several words
ProbeTexts == {<< >>, <<" ">>, <<"gm">>, <<"hi", " ", "all">>}

\* a message as the transport yields it
ProbeMessages ==
    { [sender |-> UserSender(<< >>, <<"alice">>, << >>), sender_id |-> 7, text |-> t]
        : t \in ProbeTexts }

\* elements of a message_texts list handed to the digest
ProbeLines ==
    { <<"alice", ":", " ", "deployment", " ", "pipeline">>, <<"bob", ":", " ", "gm">>,
      <<"bob", ":", " ", "Pipeline", " ", "should", " ", "release">>,
      <<"joined", " ", "the", " ", "group">>, NotAString }

SeqsUpTo(S, n) == UNION { [1..k -> S] : k \in 0..n }

\* sizes of a collected batch: below, at and above the 25 DeepSeek keeps
BatchLens == {1, 2, TrimCount, TrimCount + 1, MaxBatchLen}

\* batches as collect_messages returns them, every element "sender: text":
\* one sender only, two senders alternating, two senders two to one
ProbeBatches ==
    { [k \in 1..n |-> IF k % m = 0 THEN <<"bob", ":", " ", "gm">>
                      ELSE <<"alice", ":", " ", "deployment", " ", "pipeline">>]
        : n \in BatchLens, m \in 1..3 }

Probes ==
    { [fn |-> "resolve", message |-> MediaMessage(0), iter |-> [yielded |-> << >>, raises |-> FALSE],
       texts |-> << >>, title |-> ""] }
    \cup { [fn |-> "sender", message |-> [sender |-> sn, sender_id |-> 7, text |-> <<"gm">>],
            iter |-> [yielded |-> << >>, raises |-> FALSE], texts |-> << >>, title |-> ""]
             : sn \in ProbeSenders }
    \cup { [fn |-> "collect", message |-> MediaMessage(0),
            iter |-> [yielded |-> y, raises |-> r], texts |-> << >>, title |-> ""]
             : y \in SeqsUpTo(ProbeMessages, MaxMsgs), r \in BOOLEAN }
    \cup { [fn |-> "digest", message |-> MediaMessage(0),
            iter |-> [yielded |-> << >>, raises |-> FALSE], texts |-> t, title |-> g]
             : t \in SeqsUpTo(ProbeLines, MaxMsgs), g \in {"", "Dev"} }
    \cup { [fn |-> "fallback", message |-> MediaMessage(0),
            iter |-> [yielded |-> << >>, raises |-> FALSE], texts |-> t, title |-> g]
             : t \in ProbeBatches, g \in {"", "Dev"} }

FnInit ==
    /\ probe \in Probes
    /\ chat \in IF probe.fn = "resolve" THEN Transports ELSE {Resolvable(TRUE)}
    /\ answers = << >>
    /\ config = FullConfig(<< >>, TRUE, "deepseek")
    /\ api = [kind |-> "ok", text |-> <<"LLM summary">>]
    /\ destination_found = TRUE
    /\ topic_names = << >>
    /\ channel_entity_cache = << >>
    /\ pc = "idle"
    /\ collection_tasks = << >>
    /\ collected = << >>
    /\ all_messages = << >>
    /\ message_collections = << >>
    /\ summary_tasks = << >>
    /\ now = 0
    /\ abandoned = { }
    /\ summarizer_calls = { }
    /\ delivery_calls = { }
    /\ posts = { }
    /\ log = { }
    /\ catalog_reply = NoReply
    /\ first_run = NoRun
    /\ thread_pool = IdlePool

\* one more call of _get_channel_entity, on any ref, on the client's cache
Resolve ==
    /\ probe.fn = "resolve"
    /\ Len(answers) < MaxCalls
    /\ \E ref \in RefUniverse :
         LET r == GetChannelEntity(channel_entity_cache, ref)
         IN  /\ channel_entity_cache' = r.cache
             /\ answers' = Append(answers, [ref |-> ref, found |-> r.found, entity |-> r.entity,
                                            lookups |-> r.lookups, errors |-> r.errors,
                                            error_msg |-> r.error_msg,
                                            cached |-> DOMAIN r.cache])
    /\ UNCHANGED << catalog_reply, first_run, probe, thread_pool, config, chat, api, destination_found,
                    topic_names, pc, collection_tasks, collected, all_messages,
                    message_collections, summary_tasks, now, abandoned, summarizer_calls,
                    delivery_calls, posts, log >>

ApplyGetSenderDisplayName ==
    /\ probe.fn = "sender"
    /\ answers = << >>
    /\ answers' = <<GetSenderDisplayName(probe.message)>>
    /\ UNCHANGED << catalog_reply, first_run, probe, thread_pool, config, chat, api, destination_found,
                    topic_names, channel_entity_cache, pc, collection_tasks, collected,
                    all_messages, message_collections, summary_tasks, now, abandoned,
                    summarizer_calls, delivery_calls, posts, log >>

ApplyCollectMessages ==
    /\ probe.fn = "collect"
    /\ answers = << >>
    /\ LET r == CollectMessages(channel_entity_cache, config.TELEGRAM_SOURCE_CHANNEL,
                                probe.iter)
       IN  /\ answers' = <<[raised |-> r.raised, messages |-> r.messages]>>
           /\ channel_entity_cache' = r.cache
           /\ log' = log \cup r.log
    /\ UNCHANGED << catalog_reply, first_run, probe, thread_pool, config, chat, api, destination_found,
                    topic_names, pc, collection_tasks, collected, all_messages,
                    message_collections, summary_tasks, now, abandoned, summarizer_calls,
                    delivery_calls, posts >>

\* the digest is computed, and computed again, on the same input; each call
\* meets whatever order its set of key terms enumerates in
ApplyGenerateBasicSummary ==
    /\ probe.fn = "digest"
    /\ Len(answers) < 2
    /\ \E topic_order \in Enumerations(KeyTerms(probe.texts)) :
         answers' = Append(answers, GenerateBasicSummary(probe.texts, probe.title, topic_order))
    /\ UNCHANGED << catalog_reply, first_run, probe, thread_pool, config, chat, api, destination_found,
                    topic_names, channel_entity_cache, pc, collection_tasks, collected,
                    all_messages, message_collections, summary_tasks, now, abandoned,
                    summarizer_calls, delivery_calls, posts, log >>

\* DeepSeekSummarizer.generate_summary on a batch, the API call timing out
\* (deepseek.py lines 43-49 and 95-99): the digest of what is left of the batch
ApplyDeepSeekTimeout ==
    /\ probe.fn = "fallback"
    /\ answers = << >>
    /\ \E topic_order \in Enumerations(KeyTerms(LastN(probe.texts, TrimCount))) :
         answers' = <<DeepSeekGenerateSummary(probe.texts, probe.title,
                                              [kind |-> "timeout", text |-> <<"timed out">>],
                                              topic_order)>>
    /\ UNCHANGED << catalog_reply, first_run, probe, thread_pool, config, chat, api,
                    destination_found, topic_names, channel_entity_cache, pc, collection_tasks,
                    collected, all_messages, message_collections, summary_tasks, now, abandoned,
                    summarizer_calls, delivery_calls, posts, log >>

FnNext ==
    \/ Resolve
    \/ ApplyGetSenderDisplayName
    \/ ApplyCollectMessages
    \/ ApplyGenerateBasicSummary
    \/ ApplyDeepSeekTimeout

FunctionSpec == FnInit /\ [][FnNext]_vars

(***************************************************************************)
(* Calls of the resolver that overlap (the run started at startup and a    *)
(* scheduled one, main.py lines 57-72): each call is suspended at every    *)
(* await of client.get_entity, where the others may run                    *)
(***************************************************************************)
\* a cache that holds one entry at most
CacheWrite_evicting(cache, channel_id, entity) == [r \in {channel_id} |-> entity]

\* line 84: self._channel_entity_cache[channel_id] = channel_entity
CacheWrite(cache, channel_id, entity) ==
    [r \in DOMAIN cache \cup {channel_id} |-> IF r = channel_id THEN entity ELSE cache[r]]

\* the frame of a call served from the cache (lines 43-44)
HitFrame(channel_id, entity) ==
    [ref |-> channel_id, state |-> "returned", hit |-> TRUE, wrote |-> FALSE, awaited |-> 0,
     found |-> TRUE, entity |-> entity, lookups |-> << >>]

\* the frame of a call that missed and is suspended in its first lookup; the
\* transport answers a lookup the same way whenever it is asked, so what the
\* call will find is what its attempts find on their own
MissFrame(channel_id) ==
    LET r == TryFormats(<< >>, channel_id)
    IN  [ref |-> channel_id, state |-> "awaiting", hit |-> FALSE, wrote |-> FALSE,
         awaited |-> 0, found |-> r.found, entity |-> r.entity, lookups |-> r.lookups]

ConcurrentInit ==
    /\ probe = [fn |-> "concurrent"]
    /\ chat \in Transports
    /\ answers = << >>
    /\ config = FullConfig(<< >>, TRUE, "deepseek")
    /\ api = [kind |-> "ok", text |-> <<"LLM summary">>]
    /\ destination_found = TRUE
    /\ topic_names = << >>
    /\ channel_entity_cache = << >>
    /\ pc = "idle"
    /\ collection_tasks = << >>
    /\ collected = << >>
    /\ all_messages = << >>
    /\ message_collections = << >>
    /\ summary_tasks = << >>
    /\ now = 0
    /\ abandoned = { }
    /\ summarizer_calls = { }
    /\ delivery_calls = { }
    /\ posts = { }
    /\ log = { }
    /\ catalog_reply = NoReply
    /\ first_run = NoRun
    /\ thread_pool = IdlePool

\* lines 43-52: a call begins, checks the cache, and on a miss is suspended
\* in its first get_entity
ResolveBegins ==
    /\ probe.fn = "concurrent"
    /\ Len(answers) < MaxCalls
    /\ \E ref \in RefUniverse :
         answers' = Append(answers,
                           IF ref \in DOMAIN channel_entity_cache
                           THEN HitFrame(ref, channel_entity_cache[ref])
                           ELSE MissFrame(ref))
    /\ UNCHANGED << catalog_reply, first_run, probe, thread_pool, config, chat, api,
                    destination_found, topic_names, channel_entity_cache, pc,
                    collection_tasks, collected, all_messages, message_collections,
                    summary_tasks, now, abandoned, summarizer_calls, delivery_calls, posts,
                    log >>

\* lines 52-85: the get_entity a call is suspended in returns or raises; the
\* call goes on to its next lookup, or, after its last one, writes the cache
\* and returns, or raises ValueError
LookupReturns(c) ==
    /\ probe.fn = "concurrent"
    /\ answers[c].state = "awaiting"
    /\ LET frame == answers[c]
           last == frame.awaited + 1 = Len(frame.lookups)
       IN  /\ answers' =
                 [answers EXCEPT ![c].awaited = frame.awaited + 1,
                                 ![c].state = IF ~last THEN "awaiting"
                                              ELSE IF frame.found THEN "returned" ELSE "raised",
                                 ![c].wrote = last /\ frame.found]
           /\ channel_entity_cache' =
                 IF last /\ frame.found
                 THEN CacheWrite(channel_entity_cache, frame.ref, frame.entity)
                 ELSE channel_entity_cache
    /\ UNCHANGED << catalog_reply, first_run, probe, thread_pool, config, chat, api,
                    destination_found, topic_names, pc,
                    collection_tasks, collected, all_messages, message_collections,
                    summary_tasks, now, abandoned, summarizer_calls, delivery_calls, posts,
                    log >>

ConcurrentNext ==
    \/ ResolveBegins
    \/ \E c \in 1..Len(answers) : LookupReturns(c)

ConcurrentSpec == ConcurrentInit /\ [][ConcurrentNext]_vars

(***************************************************************************)
(* The runs a process starts: the one _setup_scheduler creates when the    *)
(* Discord client is ready and those of the cron job.  A run is suspended  *)
(* at its awaits, where the event loop runs whatever else is ready.        *)
(***************************************************************************)
\* a run as created, not yet at its first step; job 0 is the task of line 72,
\* job 1 the cron job of line 57; the run keeps what the catalog answered it
\* and the titles it gave its sub-groups (the topic_name of line 121)
NewRun(job) ==
    [job |-> job, at |-> "created", asked |-> FALSE, catalog |-> << >>, titles |-> << >>]

\* the runs suspended inside _generate_and_post_summary
InProgress == { r \in 1..Len(answers) : answers[r].at \in {"catalog", "collect", "summary"} }

ScheduleInit ==
    /\ probe = [fn |-> "schedule", started |-> FALSE]
    /\ config \in { FullConfig(ids, TRUE, "deepseek") : ids \in {<< >>, <<1>>} }
                  \cup { LoadedConfig(<<1>>, TRUE, "deepseek") }
    /\ chat \in {Resolvable(TRUE), Resolvable(FALSE), Unresolvable}
    /\ answers = << >>
    /\ api = [kind |-> "ok", text |-> <<"LLM summary">>]
    /\ destination_found = TRUE
    /\ topic_names = << >>
    /\ channel_entity_cache = << >>
    /\ pc = "idle"
    /\ collection_tasks = << >>
    /\ collected = << >>
    /\ all_messages = << >>
    /\ message_collections = << >>
    /\ summary_tasks = << >>
    /\ now = 0
    /\ abandoned = { }
    /\ summarizer_calls = { }
    /\ delivery_calls = { }
    /\ posts = { }
    /\ log = { }
    /\ catalog_reply = NoReply
    /\ first_run = NoRun
    /\ thread_pool = IdlePool

\* main.py lines 55-72, called from on_ready (discord_client.py 37-46): the
\* cron job is added, the scheduler started, and a first run created as a task
SetupScheduler ==
    /\ probe.fn = "schedule"
    /\ ~probe.started
    /\ probe' = [probe EXCEPT !.started = TRUE]
    /\ answers' = Append(answers, NewRun(0))
    /\ UNCHANGED << catalog_reply, first_run, thread_pool, config, chat, api,
                    destination_found, topic_names, channel_entity_cache, pc,
                    collection_tasks, collected, all_messages, message_collections,
                    summary_tasks, now, abandoned, summarizer_calls, delivery_calls, posts,
                    log >>

\* the cron trigger fires: the scheduler submits the job unless an instance of
\* that job is still running (add_job is given no max_instances, which leaves
\* one instance per job); the task of line 72 is no instance of the job
CronFires ==
    /\ probe.fn = "schedule"
    /\ probe.started
    /\ Len(answers) < MaxRuns
    /\ \A r \in 1..Len(answers) : answers[r].job = 1 => answers[r].at = "ended"
    /\ answers' = Append(answers, NewRun(1))
    /\ UNCHANGED << catalog_reply, first_run, probe, thread_pool, config, chat, api,
                    destination_found, topic_names, channel_entity_cache, pc,
                    collection_tasks, collected, all_messages, message_collections,
                    summary_tasks, now, abandoned, summarizer_calls, delivery_calls, posts,
                    log >>

\* main.py lines 88-177, from one suspension of run r to its next: the first
\* step up to the catalog query or the first collection (or the KeyError of
\* line 94); the catalog's answer stored in topic_names; the collections
\* awaited through the client's entity cache; the summarizer call handed to
\* the pool; its return and the post
RunProceeds(r) ==
    /\ probe.fn = "schedule"
    /\ answers[r].at # "ended"
    /\ CASE answers[r].at = "created" ->
              /\ answers' = [answers EXCEPT ![r].at =
                                IF "MESSAGE_HISTORY_DAYS" \notin DOMAIN config THEN "ended"
                                ELSE IF Truthy(config.TELEGRAM_TOPIC_IDS) THEN "catalog"
                                ELSE "collect"]
              /\ UNCHANGED << topic_names, channel_entity_cache, thread_pool >>
         [] answers[r].at = "catalog" ->
              /\ \E request \in { [raises |-> TRUE, topics |-> << >>] }
                                \cup { [raises |-> FALSE, topics |-> c] : c \in Catalogs } :
                   LET t == GetForumTopics(channel_entity_cache,
                                           config.TELEGRAM_SOURCE_CHANNEL, request)
                   IN  /\ topic_names' = UpdateTopicNames(topic_names, t.topics)
                       /\ channel_entity_cache' = t.cache
                       /\ answers' =
                             [answers EXCEPT
                                ![r].at = "collect", ![r].asked = TRUE,
                                ![r].catalog = t.topics,
                                ![r].titles =
                                   [i \in 1..Len(config.TELEGRAM_TOPIC_IDS) |->
                                      TopicName(topic_names', config.TELEGRAM_TOPIC_IDS[i])]]
              /\ UNCHANGED thread_pool
         [] answers[r].at = "collect" ->
              /\ \E iter \in IterOutcomes(0) :
                   LET c == CollectMessages(channel_entity_cache,
                                            config.TELEGRAM_SOURCE_CHANNEL, iter)
                   IN  /\ channel_entity_cache' = c.cache
                       /\ answers' = [answers EXCEPT ![r].at =
                                         IF Truthy(c.messages) THEN "summary" ELSE "ended"]
                       /\ thread_pool' = IF Truthy(c.messages) THEN Submit(thread_pool, r)
                                         ELSE thread_pool
              /\ UNCHANGED topic_names
         [] answers[r].at = "summary" ->
              /\ r \in thread_pool.running
              /\ thread_pool' = Release(thread_pool, r)
              /\ answers' = [answers EXCEPT ![r].at = "ended"]
              /\ UNCHANGED << topic_names, channel_entity_cache >>
    /\ UNCHANGED << catalog_reply, first_run, probe, config, chat, api, destination_found, pc,
                    collection_tasks, collected, all_messages, message_collections,
                    summary_tasks, now, abandoned, summarizer_calls, delivery_calls, posts,
                    log >>

ScheduleNext ==
    \/ SetupScheduler
    \/ CronFires
    \/ \E r \in 1..Len(answers) : RunProceeds(r)

ScheduleSpec == ScheduleInit /\ [][ScheduleNext]_vars

(***************************************************************************)
(* utils/prompts.py: PromptTemplates, a class whose SPECIALIZED_PROMPTS    *)
(* dict is shared by every call.  Prompts are token sequences; "{text}" is *)
(* the placeholder str.format fills.                                       *)
(***************************************************************************)
DEFAULT_SYSTEM_PROMPT == <<"You are an expert summarization assistant">>
DEFAULT_USER_PROMPT ==
    <<"Analyze and summarize the following conversation", "{text}", "Summary Expectations">>

\* the dict as the class body builds it, in insertion order
SPECIALIZED_PROMPTS ==
    << [key |-> "general", system_prompt |-> DEFAULT_SYSTEM_PROMPT,
        user_prompt |-> DEFAULT_USER_PROMPT],
       [key |-> "defi", system_prompt |-> <<"You are a specialized DeFi analyst">>,
        user_prompt |-> <<"Conduct a comprehensive analysis", "{text}",
                          "Detailed Analysis Requirements">>] >>

\* an argument left at its default None
None == <<"<None>">>

\* topic_name.lower(), word by word
LowerTopic(topic_name) ==
    [k \in 1..Len(topic_name) |->
        CASE topic_name[k] = "DeFi" -> "defi"
          [] topic_name[k] = "General" -> "general"
          [] topic_name[k] = "Undefined" -> "undefined"
          [] OTHER -> topic_name[k]]

\* key in topic_lower: the key is a substring of one of the words
KeyIn(key, topic_lower) ==
    \E k \in 1..Len(topic_lower) :
       \/ topic_lower[k] = key
       \/ key = "defi" /\ topic_lower[k] = "undefined"

\* lines 138-154: the index of the entry the call selects
SelectPrompts(stored, topic_name, prompt_type) ==
    LET general == CHOOSE k \in 1..Len(stored) : stored[k].key = "general"
        matches == { k \in 1..Len(stored) : KeyIn(stored[k].key, LowerTopic(topic_name)) }
    IN  IF prompt_type # None /\ prompt_type # << >>
           /\ \E k \in 1..Len(stored) : <<stored[k].key>> = prompt_type
        THEN CHOOSE k \in 1..Len(stored) : <<stored[k].key>> = prompt_type
        ELSE IF topic_name # None /\ topic_name # << >> /\ matches # { }
        THEN CHOOSE k \in matches : \A m \in matches : k <= m
        ELSE general

\* lines 138-162: prompts is the selected entry of the dict itself, so the
\* overrides of lines 156-160 are assignments into the dict; the call returns
\* that entry
GetPrompts(stored, topic_name, prompt_type, override_system_prompt, override_user_prompt) ==
    LET k == SelectPrompts(stored, topic_name, prompt_type)
        after == [stored EXCEPT
                    ![k].system_prompt = IF override_system_prompt # None
                                         THEN override_system_prompt ELSE @,
                    ![k].user_prompt = IF override_user_prompt # None
                                       THEN override_user_prompt ELSE @]
    IN  [prompts |-> [system_prompt |-> after[k].system_prompt,
                      user_prompt |-> after[k].user_prompt],
         stored |-> after]

\* template.format(text=text)
FormatText(template, text) ==
    Flatten([k \in 1..Len(template) |->
               IF template[k] = "{text}" THEN text ELSE <<template[k]>>])

\* lines 199-205
FormatUserPrompt(stored, text, topic_name, prompt_type, override_system_prompt, override_user_prompt) ==
    LET r == GetPrompts(stored, topic_name, prompt_type, override_system_prompt,
                        override_user_prompt)
    IN  [formatted |-> FormatText(r.prompts.user_prompt, text), stored |-> r.stored]

\* the arguments callers pass
PromptTopics == {None, <<"DeFi", "yields">>, <<"Dev">>, <<"Undefined", "General">>}
PromptTypes == {None, <<"defi">>, <<"nft">>}
SystemOverrides == {None, <<"You are a crypto market analyst">>}
UserOverrides == {None, <<"Summarize", "{text}">>}
PromptText == <<"alice: gm">>

PromptInit ==
    /\ probe = [fn |-> "prompts", stored |-> SPECIALIZED_PROMPTS]
    /\ answers = << >>
    /\ config = FullConfig(<< >>, TRUE, "deepseek")
    /\ chat = Resolvable(TRUE)
    /\ api = [kind |-> "ok", text |-> <<"LLM summary">>]
    /\ destination_found = TRUE
    /\ topic_names = << >>
    /\ channel_entity_cache = << >>
    /\ pc = "idle"
    /\ collection_tasks = << >>
    /\ collected = << >>
    /\ all_messages = << >>
    /\ message_collections = << >>
    /\ summary_tasks = << >>
    /\ now = 0
    /\ abandoned = { }
    /\ summarizer_calls = { }
    /\ delivery_calls = { }
    /\ posts = { }
    /\ log = { }
    /\ catalog_reply = NoReply
    /\ first_run = NoRun
    /\ thread_pool = IdlePool

\* one call of PromptTemplates.get_prompts
CallGetPrompts ==
    /\ probe.fn = "prompts"
    /\ Len(answers) < MaxPromptCalls
    /\ \E topic_name \in PromptTopics, prompt_type \in PromptTypes,
          override_system_prompt \in SystemOverrides, override_user_prompt \in UserOverrides :
         LET r == GetPrompts(probe.stored, topic_name, prompt_type, override_system_prompt,
                             override_user_prompt)
         IN  /\ probe' = [probe EXCEPT !.stored = r.stored]
             /\ answers' = Append(answers,
                                  [fn |-> "get_prompts", topic_name |-> topic_name,
                                   prompt_type |-> prompt_type,
                                   overridden |-> override_system_prompt # None
                                                  \/ override_user_prompt # None,
                                   system_prompt |-> r.prompts.system_prompt,
                                   user_prompt |-> r.prompts.user_prompt])
    /\ UNCHANGED << catalog_reply, first_run, thread_pool, config, chat, api,
                    destination_found, topic_names, channel_entity_cache, pc,
                    collection_tasks, collected, all_messages, message_collections,
                    summary_tasks, now, abandoned, summarizer_calls, delivery_calls, posts,
                    log >>

\* one call of PromptTemplates.format_user_prompt; of the prompts it selects
\* it returns the user prompt, filled in
CallFormatUserPrompt ==
    /\ probe.fn = "prompts"
    /\ Len(answers) < MaxPromptCalls
    /\ \E topic_name \in PromptTopics, prompt_type \in PromptTypes,
          override_system_prompt \in SystemOverrides, override_user_prompt \in UserOverrides :
         LET r == FormatUserPrompt(probe.stored, PromptText, topic_name, prompt_type,
                                   override_system_prompt, override_user_prompt)
         IN  /\ probe' = [probe EXCEPT !.stored = r.stored]
             /\ answers' = Append(answers,
                                  [fn |-> "format_user_prompt", topic_name |-> topic_name,
                                   prompt_type |-> prompt_type,
                                   overridden |-> override_system_prompt # None
                                                  \/ override_user_prompt # None,
                                   system_prompt |-> None,
                                   user_prompt |-> r.formatted])
    /\ UNCHANGED << catalog_reply, first_run, thread_pool, config, chat, api,
                    destination_found, topic_names, channel_entity_cache, pc,
                    collection_tasks, collected, all_messages, message_collections,
                    summary_tasks, now, abandoned, summarizer_calls, delivery_calls, posts,
                    log >>

PromptNext ==
    \/ CallGetPrompts
    \/ CallFormatUserPrompt

PromptSpec == PromptInit /\ [][PromptNext]_vars

(***************************************************************************)
(* Properties of a run                                                     *)
(***************************************************************************)
\* part occurs in body as a run of consecutive tokens
Contains(body, part) ==
    \E k \in 1..(Len(body) - Len(part) + 1) : SubSeq(body, k, k + Len(part) - 1) = part

\* wait_for gave up on the summary of task i (task titles are the keys of a dict)
TimedOut(i) == LogEntry("summary_generation_timed_out", summary_tasks[i].title, 0) \in log

\* the texts that say no summary could be made, and the notes that mark a reduced one
FailurePrefixes ==
    {"Unable to generate summary. API error: ",
     "Unable to generate summary with DeepSeek. Error: ",
     "Unable to generate summary. Error: "}
DegradedNotes ==
    {"*Note: This is a simplified summary due to DeepSeek API timeout.*",
     "*Note: Unable to generate a detailed summary due to DeepSeek API timeout.*"}

\* C1: once a run has started its tasks, there are k of them when k <= 1 of its
\* sources returned messages and k + 1 when k >= 2, whatever the titles.
C1_TaskCount ==
    (pc \in {"wait", "done"} /\ Len(collected) = Len(collection_tasks)) =>
        LET k == Cardinality({ i \in 1..Len(collected) : collected[i].messages # << >> })
        IN  Len(summary_tasks) = IF k <= 1 THEN k ELSE k + 1

BodyIsSummaryOrMarked(d) ==
    \/ api.kind = "ok" /\ d.embed.description = api.text
    \/ d.embed.description[1] \in FailurePrefixes
    \/ d.embed.description[Len(d.embed.description)] \in DegradedNotes

\* task i has ended after its delivery call; the post is at the destination
\* when the send succeeded, and the failure is logged when it did not
Settled(i) ==
    /\ i \in Tasks
    /\ summary_tasks[i].stage = "returned"
    /\ \E d \in delivery_calls :
         /\ d.task = i
         /\ BodyIsSummaryOrMarked(d)
         /\ summary_tasks[i].delivery = "sent" => d.embed \in posts
         /\ summary_tasks[i].delivery = "not_found" =>
               LogEntry("discord_channel_not_found", summary_tasks[i].title, 0) \in log
         /\ summary_tasks[i].delivery = "send_failed" =>
               LogEntry("error_posting_to_discord", summary_tasks[i].title, 0) \in log
    /\ summary_tasks[i].delivery \in {"sent", "not_found", "send_failed"}

C3_NoEmptyBatch ==
    /\ \A c \in summarizer_calls : c.messages # << >>
    /\ \A d \in delivery_calls : summary_tasks[d.task].messages # << >>

C3_Witness ==
    /\ \E i \in 1..Len(collected) : collected[i].messages = << >>
    /\ summarizer_calls # { }
    /\ delivery_calls # { }

\* C4: when every source of a run returned no message, the run makes no
\* summarizer call and no delivery call, logs that nothing was found and ends
\* without logging a failure.
C4_AllEmpty ==
    ( /\ "MESSAGE_HISTORY_DAYS" \in DOMAIN config
      /\ pc \in {"wait", "done"}
      /\ Len(collected) = Len(collection_tasks)
      /\ \A i \in 1..Len(collected) : collected[i].messages = << >> )
    => /\ pc = "done"
       /\ summarizer_calls = { }
       /\ delivery_calls = { }
       /\ LogEntry("no_messages_found", "", 0) \in log
       /\ LogEntry("daily_summary_failed", "", 0) \notin log

C4_Witness ==
    /\ pc = "done"
    /\ Len(collected) >= 2
    /\ \A i \in 1..Len(collected) : collected[i].messages = << >>
    /\ LogEntry("no_messages_found", "", 0) \in log

\* C5: a source whose iteration raised contributes the empty list, the failure
\* is logged, the run goes on to every other source, and the tasks are made
\* from the other sources' messages alone.
C5_TransportFailure ==
    /\ \A i \in 1..Len(collected) : collected[i].raised => collected[i].messages = << >>
    /\ (\E i \in 1..Len(collected) : collected[i].raised) =>
         /\ LogEntry("error_collecting_messages", "", 0) \in log
         /\ LogEntry("daily_summary_failed", "", 0) \notin log
         /\ pc \in {"spawn", "wait", "done"} => Len(collected) = Len(collection_tasks)
         /\ pc \in {"wait", "done"} =>
              /\ \A t \in Tasks :
                   \/ /\ summary_tasks[t].title = AllTitle
                      /\ summary_tasks[t].messages =
                            Flatten([j \in 1..Len(collected) |->
                                       IF collected[j].raised THEN << >>
                                       ELSE collected[j].messages])
                   \/ \E j \in 1..Len(collected) :
                         /\ ~collected[j].raised
                         /\ collection_tasks[j].title = summary_tasks[t].title
                         /\ collected[j].messages = summary_tasks[t].messages
              /\ \A j \in 1..Len(collected) :
                   (~collected[j].raised /\ collected[j].messages # << >>) =>
                       \E t \in Tasks : summary_tasks[t].title = collection_tasks[j].title

C5_Witness ==
    \E i \in 1..Len(collected), j \in 1..Len(collected) :
        /\ collected[i].raised
        /\ collected[j].messages # << >>
        /\ \E p \in posts : summary_tasks[p.task].title = collection_tasks[j].title
                            /\ summary_tasks[p.task].messages = collected[j].messages

C7_BackendError ==
    api.kind \in {"error", "api_error"} =>
        \A i \in Tasks :
            (summary_tasks[i].stage # "summarizing" /\ ~TimedOut(i)) =>
                \E d \in delivery_calls :
                    /\ d.task = i
                    /\ d.embed.description[1] \in FailurePrefixes
                    /\ Contains(d.embed.description, api.text)

C7_Witness ==
    \E d \in delivery_calls :
        /\ api.kind = "api_error"
        /\ ~TimedOut(d.task)
        /\ Contains(d.embed.description, <<"rate limit">>)
        /\ d.embed \in posts

\* C8: a step in which the delivery of one task fails logs the failure and
\* leaves every sibling task, the run's position and the abandoned set as
\* they were.
C8_DeliveryFailureIsolated ==
    [][\A i \in Tasks :
          (/\ summary_tasks[i].delivery = "none"
           /\ summary_tasks'[i].delivery \in {"not_found", "send_failed", "cancelled"})
          => /\ \E e \in log' :
                  /\ e.title = summary_tasks[i].title
                  /\ e.event \in {"discord_channel_not_found", "error_posting_to_discord"}
             /\ \A j \in Tasks \ {i} : summary_tasks'[j] = summary_tasks[j]
             /\ pc' = pc
             /\ abandoned' = abandoned]_vars

C8_Witness ==
    \E i \in Tasks, j \in Tasks :
        /\ summary_tasks[i].delivery \in {"not_found", "send_failed"}
        /\ summary_tasks[j].delivery = "sent"
        /\ \E p \in posts : p.task = j

\* C9: when the transport accepts neither the channel ref as given nor its
\* bare id, no source yields a message, no call is made to the summarizer or
\* to the destination, the failure is logged and the run ends logging that
\* nothing was found.
C9_Unresolvable ==
    ( /\ StrKey(config.TELEGRAM_SOURCE_CHANNEL) \notin chat.accepts
      /\ IntKey(ParseNat(DropFirst(config.TELEGRAM_SOURCE_CHANNEL, 4))) \notin chat.accepts
      /\ "MESSAGE_HISTORY_DAYS" \in DOMAIN config )
    => /\ \A i \in 1..Len(collected) : collected[i].messages = << >>
       /\ summary_tasks = << >>
       /\ summarizer_calls = { }
       /\ delivery_calls = { }
       /\ Len(collected) > 0 => LogEntry("cannot_find_channel", "", 0) \in log
       /\ LogEntry("daily_summary_failed", "", 0) \notin log
       /\ pc # "wait"
       /\ pc = "done" => LogEntry("no_messages_found", "", 0) \in log

C9_Witness ==
    /\ chat = Unresolvable
    /\ pc = "done"
    /\ Len(collected) >= 2
    /\ LogEntry("cannot_find_channel", "", 0) \in log
    /\ LogEntry("no_messages_found", "", 0) \in log

\* C10 as stated: no post of a task the run stopped waiting for reaches the
\* destination.
C10_NoLateDelivery ==
    \A p \in posts : p.task \notin abandoned

\* C10: once the budget has elapsed the run has ended and logged each task
\* still outstanding as timed out; such a task was called once, is never
\* cancelled and goes on: it is sending, or has ended by its own send, whose
\* post is then at the destination.
C10_Abandoned ==
    abandoned # { } =>
        /\ pc = "done"
        /\ now >= PhaseBudget
        /\ LogEntry("summary_task_timed_out", "", Cardinality(abandoned)) \in log
        /\ \A i \in abandoned :
             /\ Cardinality({ c \in summarizer_calls : c.task = i }) = 1
             /\ Cardinality({ d \in delivery_calls : d.task = i }) = 1
             /\ \/ summary_tasks[i].stage = "posting"
                \/ /\ summary_tasks[i].stage = "returned"
                   /\ summary_tasks[i].delivery \in {"sent", "send_failed"}
             /\ summary_tasks[i].delivery = "sent" =>
                   Embed(i, summary_tasks[i].summary) \in posts

C10_Witness ==
    \E p \in posts : p.task \in abandoned /\ pc = "done" /\ now >= PhaseBudget

\* C11: a run whose tasks have been started never waits past the budget: while
\* it waits, either every task has returned, or the budget is due and ends the
\* wait, or time can still pass up to a pending timer, or a timer that is due
\* fires; none of these steps needs an answer from the completion API or from
\* the destination.
C11_RunTerminates ==
    /\ now <= PhaseBudget
    /\ pc = "wait" =>
          \/ ENABLED AllTasksComplete
          \/ ENABLED PhaseBudgetElapses
          \/ /\ now < PhaseBudget
             /\ \/ ENABLED Tick
                \/ \E i \in Tasks : /\ summary_tasks[i].stage = "summarizing"
                                    /\ ENABLED SummaryTimesOut(i)

\* the run has ended at the budget while a send had not returned, after a
\* completion call had outlasted its timeout
C11_Witness ==
    /\ pc = "done"
    /\ now = PhaseBudget
    /\ \E i \in abandoned : summary_tasks[i].stage = "posting" /\ TimedOut(i)

(***************************************************************************)
(* Properties of the resolver                                              *)
(***************************************************************************)
SameRef(i, j) == i < j /\ answers[i].ref = answers[j].ref

\* C12 as stated: two resolves of one ref issue at most one lookup between
\* them, and the second issues none.
C12_AtMostOneLookup ==
    probe.fn = "resolve" =>
      \A i, j \in 1..Len(answers) :
        SameRef(i, j) =>
          /\ Len(answers[i].lookups) + Len(answers[j].lookups) <= 1
          /\ answers[j].lookups = << >>

\* C12: once a resolve of a ref has succeeded, every later resolve of that ref
\* is served from the cache and issues no lookup; a resolve that is not served
\* from the cache issues one or two lookups; a resolve that failed left nothing
\* in the cache, so its repetition issues the same lookups again.
C12_CachedAfterSuccess ==
    probe.fn = "resolve" =>
      /\ \A i \in 1..Len(answers) : Len(answers[i].lookups) <= 2
      /\ \A i, j \in 1..Len(answers) :
           SameRef(i, j) =>
             /\ answers[i].found =>
                   /\ answers[j].found
                   /\ answers[j].lookups = << >>
                   /\ answers[j].entity = answers[i].entity
             /\ ~answers[i].found =>
                   /\ ~answers[j].found
                   /\ answers[j].lookups = answers[i].lookups
                   /\ Len(answers[j].lookups) >= 1

C12_Witness ==
    /\ probe.fn = "resolve"
    /\ \E i, j \in 1..Len(answers) :
         /\ SameRef(i, j)
         /\ answers[i].found
         /\ Len(answers[i].lookups) = 2
         /\ answers[j].lookups = << >>

\* the lookups that can resolve a prefixed ref: the ref as given, its bare digits
PrefixedKeys(ref) == {StrKey(ref), IntKey(ParseNat(DropFirst(ref, 4)))}

\* C13: a ref of the form -100<digits> that the transport accepts as given or
\* as its bare digits resolves to the entity the transport returned for that
\* lookup (the one as given when both are accepted), and every later resolve
\* of the same ref returns that same entity.
C13_PrefixedResolves ==
    probe.fn = "resolve" =>
      \A i \in 1..Len(answers) :
        LET ref == answers[i].ref
        IN  (StripApplies(ref) /\ PrefixedKeys(ref) \cap chat.accepts # { }) =>
              /\ answers[i].found
              /\ answers[i].entity = IF StrKey(ref) \in chat.accepts
                                     THEN Entity(StrKey(ref))
                                     ELSE Entity(IntKey(ParseNat(DropFirst(ref, 4))))
              /\ \A j \in 1..Len(answers) :
                   SameRef(i, j) => answers[j].found /\ answers[j].entity = answers[i].entity

C13_Witness ==
    /\ probe.fn = "resolve"
    /\ \E i, j \in 1..Len(answers) :
         /\ SameRef(i, j)
         /\ StripApplies(answers[i].ref)
         /\ StrKey(answers[i].ref) \notin chat.accepts
         /\ answers[i].found
         /\ answers[i].lookups = <<StrKey(answers[i].ref), IntKey(50)>>
         /\ answers[j].entity = Entity(IntKey(50))

\* C14: a resolve whose every attempt failed raises an error whose message
\* carries the reason of each attempt that was made, and leaves the cache
\* without an entry for the ref.
C14_ErrorCarriesReasons ==
    probe.fn = "resolve" =>
      \A i \in 1..Len(answers) :
        ~answers[i].found =>
          /\ answers[i].errors # << >>
          /\ \A k \in 1..Len(answers[i].errors) :
               Contains(answers[i].error_msg, <<answers[i].errors[k]>>)
          /\ answers[i].ref \notin answers[i].cached

(***************************************************************************)
(* Properties of collect_messages and of the sender name                   *)
(***************************************************************************)
\* text.strip() == "": no token, or spaces only
IsBlank(text) == \A k \in 1..Len(text) : text[k] = " "

\* the messages with some text that is not whitespace, in the order yielded
WithText(yielded) == SelectSeq(yielded, LAMBDA m : ~IsBlank(m.text))

\* C15: when the iteration completes, the output holds exactly the yielded
\* messages whose text is neither empty nor whitespace-only, each once,
\* formatted, in the order they were yielded.
C15_ExcludesBlank ==
    (probe.fn = "collect" /\ answers # << >> /\ ~probe.iter.raises) =>
      answers[1].messages =
        [k \in 1..Len(WithText(probe.iter.yielded)) |->
           FormatMessage(WithText(probe.iter.yielded)[k])]

\* C16: the sender name of a message is the handle when the sender has one;
\* else first and last name when it has both; else the first name when it has
\* one; else the sender id as a string; and it is the literal "Unknown", chosen
\* for lack of a sender, exactly when no sender is attached (no name or handle
\* of the senders considered spells "Unknown").
C16_SenderPriority ==
    (probe.fn = "sender" /\ answers # << >>) =>
      LET sender == probe.message.sender
          attached == sender.kind # "none"
          handle == attached /\ sender.username # << >>
          first == attached /\ sender.first_name # << >>
          last == attached /\ sender.last_name # << >>
      IN  /\ (answers[1] = <<"Unknown">>) <=> ~attached
          /\ handle => answers[1] = <<"@">> \o sender.username
          /\ (~handle /\ first /\ last) =>
                answers[1] = sender.first_name \o <<" ">> \o sender.last_name
          /\ (~handle /\ first /\ ~last) => answers[1] = sender.first_name
          /\ (attached /\ ~handle /\ ~first) =>
                answers[1] = <<ToString(probe.message.sender_id)>>

C16_Witness ==
    /\ probe.fn = "sender"
    /\ probe.message.sender = UserSender(<<"carol">>, <<"Ann">>, <<"Lee">>)
    /\ answers = <<<<"@", "carol">>>>

(***************************************************************************)
(* Properties of the overall batch and of repeated runs                    *)
(***************************************************************************)
\* the run created the overall task: one task more than collections
HasOverall == Len(summary_tasks) > Len(message_collections)

\* C17: the overall batch is made only when at least two sources of the run
\* returned messages, and its messages are the concatenation, in the order of
\* their tasks, of exactly the batches that are summarized individually.
C17_OverallIsConcatenation ==
    HasOverall =>
      /\ Cardinality({i \in 1..Len(collected) : Truthy(collected[i].messages)}) >= 2
      /\ summary_tasks[Len(summary_tasks)].messages =
            Flatten([i \in 1..(Len(summary_tasks) - 1) |-> summary_tasks[i].messages])

\* the second run has ended, every task of it returned
SecondRunEnded == first_run.done /\ pc = "done" /\ Outstanding = { }

\* the chat source answered the second run as it answered the first
SameChatAnswers ==
    /\ catalog_reply = first_run.catalog_reply
    /\ collected = first_run.collected

\* the summarizer answered the second run's tasks as it answered the first's
SameSummaries == [i \in Tasks |-> summary_tasks[i].summary] = first_run.summaries

C19_Deterministic ==
    (probe.fn = "digest" /\ Len(answers) = 2) => answers[1] = answers[2]

\* the minimal text of the digest's except branch
FallbackText(message_texts) ==
    <<"This topic contained ", ToString(Len(message_texts)), " messages.">>

\* C20: on every list of messages the digest returns a text and lets no
\* exception out; when an element makes its processing fail (it is not a
\* string), the text is the minimal one that reports the message count only.
C20_NeverRaises ==
    probe.fn = "digest" =>
      \A k \in 1..Len(answers) :
        /\ answers[k] # <<"<raised>">>
        /\ Len(answers[k]) > 0
        /\ (NotAString \in Range(probe.texts)) <=> (answers[k] = FallbackText(probe.texts))

C20_Witness ==
    /\ probe.fn = "digest"
    /\ probe.texts = <<<<"bob", ":", " ", "gm">>, NotAString>>
    /\ answers # << >>
    /\ answers[1] = <<"This topic contained ", "2", " messages.">>

(***************************************************************************)
(* Properties of the phases of a run and of its concurrency                *)
(***************************************************************************)
\* C21: the phases of a run follow one another: a task is created, and a
\* summarizer call issued, only once every collection of the run has been
\* awaited to its end; and the run is done only when every task has returned
\* or the phase budget has elapsed and the tasks left are the abandoned ones.
C21_PhasesInSequence ==
    /\ (summary_tasks # << >> \/ summarizer_calls # { }) =>
          /\ pc \in {"wait", "done"}
          /\ Len(collected) = Len(collection_tasks)
    /\ pc \in {"idle", "topics", "collect", "spawn"} => delivery_calls = { }
    /\ pc = "done" =>
          /\ Outstanding \subseteq abandoned
          /\ abandoned # { } => now >= PhaseBudget

C21_Witness ==
    /\ pc = "done"
    /\ Len(collected) = 3
    /\ Cardinality(summarizer_calls) >= 3
    /\ Outstanding # { }
    /\ now = PhaseBudget

\* C22: while the collections are awaited, every source's collection has been
\* started, so that those not yet ended are in flight together; and the tasks
\* are created only when all of them have ended.
C22_CollectionsFanOut ==
    /\ pc = "collect" => StartedCollections = 1..Len(collection_tasks)
    /\ pc \in {"spawn", "wait"} => Len(collected) = Len(collection_tasks)

\* the summary of task i (the summarizer's text, or the timeout notice) is ready
SummaryReady(i) == summary_tasks[i].stage # "summarizing" /\ summary_tasks[i].summary # << >>

\* C23: a task's delivery is issued in the step in which its own summary
\* becomes ready, whatever the other tasks are doing: at every moment a task
\* has a delivery call exactly when its summary is ready, also while tasks
\* created before it are still waiting for theirs, and the call carries that
\* summary.
C23_DeliveredWhenReady ==
    \A i \in Tasks :
      /\ SummaryReady(i) <=> \E d \in delivery_calls : d.task = i
      /\ \A d \in delivery_calls :
           d.task = i => d.embed.description = summary_tasks[i].summary

C23_Witness ==
    /\ Len(summary_tasks) = 3
    /\ summary_tasks[1].stage = "summarizing"
    /\ summary_tasks[2].stage = "summarizing"
    /\ SummaryReady(3)
    /\ ~TimedOut(3)
    /\ \E d \in delivery_calls : d.task = 3

\* C24: once the 120 timeout has fired for a task, its blocking summarizer call
\* is no longer executing and holds no thread of the pool; the calls of the
\* other tasks are untouched, the task goes on with its fallback text, and the
\* run goes on.
C24_TimeoutCancelsCall ==
    \A i \in Tasks :
      TimedOut(i) =>
        /\ i \notin thread_pool.running
        /\ SummaryReady(i)
        /\ pc \in {"wait", "done"}

\* C25: whatever the number of batches, the blocking call of every task is
\* started when the task is (no task's call waits for another's to end), and a
\* task falls back for its timeout only after its own call has been issued.
C25_CallsIndependent ==
    \A i \in Tasks :
      /\ summary_tasks[i].stage = "summarizing" => i \in thread_pool.running
      /\ TimedOut(i) => \E c \in summarizer_calls : c.task = i

\* C26: at most max_workers blocking summarizer calls execute at a time,
\* those of tasks that have already timed out included, and a call executes
\* nowhere but in the pool: a task awaiting its summary has its call in a
\* thread or in the executor's queue, and every started call was given a thread.
C26_AtMostFiveCalls ==
    /\ Cardinality(thread_pool.running) <= MaxWorkers
    /\ \A i \in Tasks :
         summary_tasks[i].stage = "summarizing" =>
           i \in thread_pool.running \cup Range(thread_pool.queue)
    /\ thread_pool.running \subseteq { c.task : c \in summarizer_calls }
    /\ Len(thread_pool.queue) > 0 => Cardinality(thread_pool.running) = MaxWorkers

C26_Witness ==
    /\ Cardinality(thread_pool.running) = MaxWorkers
    /\ Len(thread_pool.queue) > 0
    /\ \E i \in thread_pool.running : TimedOut(i)

(***************************************************************************)
(* Properties of the entity cache                                          *)
(***************************************************************************)
\* the calls that wrote the cache entry of ref
Writers(ref) == { c \in 1..Len(answers) : answers[c].ref = ref /\ answers[c].wrote }

Unprefixed(ref) == IntParses(ref) /\ ~StartsWith(ref, BroadcastPrefix)

\* that number with the prefix added, as a peer id
WithPrefix(ref) == IntKey(0 - ParseNat(<<"1", "0", "0">> \o LStrip(ref, "-")))

\* C28: a resolve that misses the cache looks up the ref as given first; only
\* when that fails and the ref is -100<digits>, the bare digits; only when the
\* first fails and the ref is numeric without the prefix, the number with the
\* prefix added; it issues no lookup after one has succeeded, and returns the
\* entity of the lookup that succeeded.
C28_LookupOrder ==
    probe.fn = "resolve" =>
      \A i \in 1..Len(answers) :
        LET ref == answers[i].ref
            lookups == answers[i].lookups
            n == Len(lookups)
        IN  n > 0 =>
              /\ lookups[1] = StrKey(ref)
              /\ n <= 2
              /\ \A k \in 1..(n - 1) : lookups[k] \notin chat.accepts
              /\ answers[i].found <=> lookups[n] \in chat.accepts
              /\ answers[i].found => answers[i].entity = Entity(lookups[n])
              /\ n = 2 =>
                   \/ StripApplies(ref) /\ lookups[2] = IntKey(ParseNat(DropFirst(ref, 4)))
                   \/ Unprefixed(ref) /\ lookups[2] = WithPrefix(ref)
              /\ (StrKey(ref) \notin chat.accepts /\ (StripApplies(ref) \/ Unprefixed(ref))) =>
                   n = 2

C28_Witness ==
    /\ probe.fn = "resolve"
    /\ \E i \in 1..Len(answers) :
         /\ answers[i].ref = <<"-", "5">>
         /\ answers[i].lookups = <<StrKey(<<"-", "5">>), IntKey(0 - 1005)>>
         /\ answers[i].found
         /\ answers[i].entity = Entity(IntKey(0 - 1005))

\* C29: nothing but the entity cache is carried from one run to the next: when
\* a second run begins, the title map, the batch map and the list of all
\* messages hold nothing of the first run.
C29_OnlyCacheCarried ==
    (first_run.done /\ pc = "idle") =>
      /\ topic_names = << >>
      /\ message_collections = << >>
      /\ all_messages = << >>

RECURSIVE Distinct(_, _)
\* the elements of a sequence, each kept where it first occurs
Distinct(words, seen) ==
    IF Len(words) = 0 THEN << >>
    ELSE IF Head(words) \in seen THEN Distinct(Tail(words), seen)
    ELSE <<Head(words)>> \o Distinct(Tail(words), seen \cup {Head(words)})

\* the key terms in the order in which the messages bring them up
FirstEncountered(message_texts) ==
    LET authored == SelectSeq(message_texts, LAMBDA m : HasAuthor(m))
        words == Flatten([i \in 1..Len(authored) |-> LowerWords(ContentOf(authored[i]))])
    IN  Distinct(SelectSeq(words, LAMBDA w : Len(w) > MinTokenLen /\ w \notin Stoplist), { })

\* C30: the key terms of a digest are the first 10 (or all, if fewer) distinct
\* lowercased words of the message bodies that are longer than 5 characters
\* and outside the stoplist, in the order in which they are first encountered;
\* the digest has no key-terms section when there is none.
C30_KeyTermsInEncounterOrder ==
    (probe.fn = "digest" /\ NotAString \notin Range(probe.texts)) =>
      \A k \in 1..Len(answers) :
        LET terms == FirstEncountered(probe.texts)
            first == SubSeq(terms, 1, IF Len(terms) < TopicLimit THEN Len(terms) ELSE TopicLimit)
        IN  IF Len(terms) = 0
            THEN ~Contains(answers[k], <<"**Key terms**: ">>)
            ELSE Contains(answers[k],
                          <<"**Key terms**: ">>
                          \o JoinTokens([j \in 1..Len(first) |-> <<first[j]>>], ", ")
                          \o <<"**Messages**: ">>)

\* the token that follows a label of the digest
TokenAfter(body, label) == body[(CHOOSE k \in 1..Len(body) : body[k] = label) + 1]

\* the number a decimal token of the digest stands for
CountOf(token) == CHOOSE n \in 0..MaxBatchLen : ToString(n) = token

\* the per-sender counts of the participant list, in the order listed
ListedCounts(body) ==
    LET stats == CHOOSE k \in 1..Len(body) : body[k] = "**Messages**: "
        opens == SelectSeq([k \in 1..stats |-> k], LAMBDA k : body[k] = " (")
    IN  [j \in 1..Len(opens) |-> CountOf(body[opens[j] + 1])]

\* C31: in the digest produced for a batch when the DeepSeek call times out,
\* the total message count reported is the number of messages of the batch
\* handed to generate_summary, the unique-participant count reported is the
\* number of senders listed, and the per-sender counts add up to the total
\* reported.
C31_DigestCounts ==
    (probe.fn = "fallback" /\ answers # << >>) =>
      LET body == answers[1]
          total == TokenAfter(body, "**Messages**: ")
          listed == ListedCounts(body)
      IN  /\ total = ToString(Len(probe.texts))
          /\ TokenAfter(body, " | **Unique Participants**: ") = ToString(Len(listed))
          /\ SeqSum(listed) = CountOf(total)

(***************************************************************************)
(* Properties of the catalog, the configuration and the collection         *)
(***************************************************************************)
\* the sources a configuration names: the main channel if included, and every
\* listed sub-group
ConfiguredSources(cfg) ==
    (IF cfg.INCLUDE_MAIN_CHANNEL THEN 1 ELSE 0) + Len(cfg.TELEGRAM_TOPIC_IDS)

\* the run is past the point where line 102 asks for the catalog
PastCatalog == pc \in {"collect", "spawn", "wait", "done"}

\* C32: in a run the catalog is queried exactly once when a sub-group is
\* configured (never before the run reaches the query, once when it is past
\* it) and not at all otherwise; on a channel without sub-groups the catalog
\* answers with the empty sequence and no error, and the run goes on to
\* collect every configured source.
C32_CatalogQueriedOnce ==
    /\ pc \in {"idle", "topics"} => ~catalog_reply.asked
    /\ PastCatalog => (catalog_reply.asked <=> Truthy(config.TELEGRAM_TOPIC_IDS))
    /\ (catalog_reply.asked /\ chat = Resolvable(FALSE)) =>
          /\ catalog_reply.topics = << >>
          /\ LogEntry("error_getting_forum_topics", "", 0) \notin log
          /\ pc \in {"spawn", "wait", "done"} =>
                Len(collected) = ConfiguredSources(config)

\* the configuration keys a run reads (main.py lines 91-94, 221 and 223)
RunKeys ==
    {"TELEGRAM_SOURCE_CHANNEL", "TELEGRAM_TOPIC_IDS", "INCLUDE_MAIN_CHANNEL",
     "MESSAGE_HISTORY_DAYS", "DISCORD_DESTINATION_CHANNEL_ID", "LLM_PROVIDER"}

\* the configurations load_configuration can return
LoadedConfigurations ==
    { LoadedConfig(ids, main, provider) :
        ids \in TopicIdLists, main \in BOOLEAN, provider \in Providers }

\* C33: a configuration returned by load_configuration holds every key a run
\* reads, so a run started with it never fails on a missing key: it goes on
\* to the collection phase and awaits every configured source.
C33_LoadedConfigRuns ==
    config \in LoadedConfigurations =>
      /\ RunKeys \subseteq DOMAIN config
      /\ LogEntry("daily_summary_failed", "", 0) \notin log
      /\ pc = "done" => Len(collected) = ConfiguredSources(config)

\* the messages of an iteration that carry text, in the order yielded
TextMessages(yielded) == SelectSeq(yielded, LAMBDA m : Len(m.text) > 0)

\* a formatted line ends with the text of the message it was made from
EndsWith(line, text) ==
    Len(line) >= Len(text) /\ SubSeq(line, Len(line) - Len(text) + 1, Len(line)) = text

\* C34: collecting one source is all or nothing: when the transport fails,
\* even after messages have been read, collect_messages returns the empty
\* sequence and raises nothing; a non-empty result holds one line for every
\* text message the transport yielded, in order, each ending with its text.
C34_AllOrNothing ==
    (probe.fn = "collect" /\ answers # << >>) =>
      LET messages == answers[1].messages
          texts == TextMessages(probe.iter.yielded)
      IN  /\ ~answers[1].raised
          /\ probe.iter.raises => messages = << >>
          /\ ~probe.iter.raises =>
                /\ Len(messages) = Len(texts)
                /\ \A k \in 1..Len(texts) : EndsWith(messages[k], texts[k].text)

C34_Witness ==
    /\ probe.fn = "collect"
    /\ probe.iter.raises
    /\ Len(TextMessages(probe.iter.yielded)) = MaxMsgs
    /\ answers # << >>
    /\ answers[1].messages = << >>
    /\ ~answers[1].raised

(***************************************************************************)
(* Properties of the resolver's lookups, the posts and the runs            *)
(***************************************************************************)
\* the refs cached when call i began
CachedBefore(i) == IF i = 1 THEN { } ELSE answers[i - 1].cached

\* C35: one call of the resolver issues no transport lookup when its ref is
\* cached and one or two when it is not (the attempt without the -100 prefix
\* and the attempt with it never both apply); a call that fails leaves the
\* cache as it found it, so a later call on the same ref issues the same
\* lookups again.
C35_LookupsPerCall ==
    probe.fn = "resolve" =>
      \A i \in 1..Len(answers) :
        /\ answers[i].ref \in CachedBefore(i) => answers[i].lookups = << >>
        /\ answers[i].ref \notin CachedBefore(i) => Len(answers[i].lookups) \in {1, 2}
        /\ ~(StripApplies(answers[i].ref) /\ AddApplies(answers[i].ref))
        /\ ~answers[i].found =>
              /\ answers[i].cached = CachedBefore(i)
              /\ \A j \in (i + 1)..Len(answers) :
                   answers[j].ref = answers[i].ref =>
                     /\ ~answers[j].found
                     /\ answers[j].lookups = answers[i].lookups

C35_Witness ==
    /\ probe.fn = "resolve"
    /\ Len(answers) = MaxCalls
    /\ answers[1].ref = ChannelRef
    /\ ~answers[1].found
    /\ Len(answers[1].lookups) = 2
    /\ answers[2].ref = <<"5">>
    /\ answers[2].found
    /\ answers[3].ref = ChannelRef
    /\ answers[3].lookups = answers[1].lookups

\* the invocations of post_summary made for task i, and the embeds sent for it
PostCalls(calls, i) == { d \in calls : d.task = i }
PostsOf(sent, i) == { p \in sent : p.task = i }

\* C36: within a run post_summary is invoked at most once for each batch (one
\* task per batch, the aggregate one included): never before the task has its
\* summary, never again once invoked; a post that was rejected or that failed
\* leaves its task returned for good, and no batch is sent twice.
C36_PostedOncePerBatch ==
    /\ [](\A i \in Tasks :
            /\ Cardinality(PostCalls(delivery_calls, i)) <= 1
            /\ Cardinality(PostsOf(posts, i)) <= 1
            /\ summary_tasks[i].stage = "summarizing" => PostCalls(delivery_calls, i) = { }
            /\ summary_tasks[i].delivery # "none" => summary_tasks[i].stage = "returned")
    /\ [][\A i \in Tasks :
            /\ summary_tasks[i].stage # "summarizing" =>
                  PostCalls(delivery_calls', i) = PostCalls(delivery_calls, i)
            /\ summary_tasks[i].stage = "returned" =>
                  /\ summary_tasks'[i] = summary_tasks[i]
                  /\ PostsOf(posts', i) = PostsOf(posts, i)]_vars

C36_Witness ==
    /\ pc = "done"
    /\ Len(summary_tasks) = 3
    /\ summary_tasks[1].delivery = "send_failed"
    /\ summary_tasks[2].delivery = "sent"
    /\ summary_tasks[3].title = AllTitle
    /\ summary_tasks[3].delivery = "send_failed"
    /\ \A i \in Tasks : Cardinality(PostCalls(delivery_calls, i)) = 1
    /\ Cardinality(posts) = 1

\* C37: at most one run is in progress at any time: the run created at
\* startup and the runs of the cron job never overlap, so the worker pool
\* never serves two runs at once.
C37_OneRunAtATime ==
    probe.fn = "schedule" =>
      /\ Cardinality(InProgress) <= 1
      /\ Cardinality(thread_pool.running) <= 1

\* the title a catalog answer holds for a sub-group (the last entry for the
\* id, as the loop of lines 104-105 leaves it), or the fallback title
CatalogTitle(catalog, topic_id) ==
    LET entries == { k \in 1..Len(catalog) : catalog[k].id = topic_id }
    IN  IF entries = { } THEN "Topic " \o ToString(topic_id)
        ELSE catalog[CHOOSE k \in entries : \A e \in entries : e <= k].title

\* C38: the title a run uses for a configured sub-group is the one the
\* catalog returned for its id in that run, and the fallback 'Topic <id>'
\* exactly when that catalog has no entry for the id; a title learned in an
\* earlier run is never used.
C38_TitleFromOwnCatalog ==
    probe.fn = "schedule" =>
      \A r \in 1..Len(answers) :
        answers[r].asked =>
          \A i \in 1..Len(config.TELEGRAM_TOPIC_IDS) :
            answers[r].titles[i] =
              CatalogTitle(answers[r].catalog, config.TELEGRAM_TOPIC_IDS[i])

\* the prompts the class body defines for a topic and a prompt type
OriginalPrompts(topic_name, prompt_type) ==
    SPECIALIZED_PROMPTS[SelectPrompts(SPECIALIZED_PROMPTS, topic_name, prompt_type)]

\* C39: get_prompts and format_user_prompt leave the stored templates as the
\* class body defined them: after any calls, with overrides or without, a
\* call without overrides returns the original specialized or default
\* prompts of its prompt type or topic.
C39_TemplatesUnchanged ==
    probe.fn = "prompts" =>
      /\ probe.stored = SPECIALIZED_PROMPTS
      /\ \A k \in 1..Len(answers) :
           ~answers[k].overridden =>
             LET original == OriginalPrompts(answers[k].topic_name, answers[k].prompt_type)
             IN  IF answers[k].fn = "get_prompts"
                 THEN /\ answers[k].system_prompt = original.system_prompt
                      /\ answers[k].user_prompt = original.user_prompt
                 ELSE answers[k].user_prompt = FormatText(original.user_prompt, PromptText)

====
